---- MODULE Spec2Model ----
(***************************************************************************)
(* Model of the popup-defense subsystem of the streaming front end:        *)
(*   - ClickShield (src/src/utils/adBlocker.ts, class ClickShield): the    *)
(*     click-gating / trust-scoring shield placed over the embed iframe;   *)
(*   - the window.open wrappers of the two createAdBlocker revisions       *)
(*     (src/src/utils/adBlocker.ts and src/unnamed/part_008).              *)
(* Time is wall-clock milliseconds (Date.now()).                           *)
(***************************************************************************)
EXTENDS Integers, Sequences, FiniteSets, TLC

VARIABLES
    now,        \* the wall clock, the value Date.now() returns
    config,     \* ClickShield.config (enabled, isMobile)
    state,      \* ClickShield.state (ClickShieldState)
    ret,        \* what the last ClickShield call returned / logged
    ticks,      \* number of clock advances so far (exploration bound)
    adConfig,   \* createAdBlocker: the revision running and its mergedConfig
    adState,    \* createAdBlocker: state (AdBlockerState)
    opened,     \* what the last call of the wrapped window.open did
    attempts,   \* popup attempts since the surface loaded, and their signals
    nav,        \* what the last intercepted navigation request came to
    monitor,    \* window.length, the monitor's baseline, what its polls saw
    hlsConfig,  \* HLSPlayer: the revision running, what the browser supports
    player,     \* HLSPlayer: component state, refs, engines, pending timers
    lastEv,     \* HLSPlayer: what the handler that ran last found
    detail,     \* MovieDetail: component state and its pending stream requests
    lastCall,   \* getMappleTVStream: what the call that settled last returned
    page,       \* PlayerPage: component state, what its popup handler did
    win,        \* the window the ad blockers run in: window.open, listeners, timers
    backend,    \* the scraper backend: shared browser page, requests, proxy
    storage     \* localStorage and the tabs that mirror it

shieldVars == <<config, state, ret>>
adVars == <<adConfig, adState, opened, attempts, nav, monitor>>
playerVars == <<hlsConfig, player, lastEv>>
detailVars == <<detail, lastCall>>
siteVars == <<page, win, backend, storage>>
vars == <<now, config, state, ret, ticks, adConfig, adState, opened, attempts,
          nav, monitor,
          hlsConfig, player, lastEv, detail, lastCall,
          page, win, backend, storage>>

----------------------------------------------------------------------------
(* Bounds of the exploration *)

Epoch == 100000         \* Date.now() at page load
MaxTicks == 2           \* clock advances explored
MaxClicks == 9          \* handleClick calls explored
MaxGestures == 3        \* document click events explored
MaxBlocked == 3         \* blocked window.open calls explored
MaxRecoveries == 3      \* recoverMediaError / unbudgeted startLoad calls explored
MaxTimers == 2          \* pending timers when an engine event arrives
MaxCalls == 2           \* handlePlay calls explored
RandDen == 4            \* Math.random() is drawn from {0/4, 1/4, 2/4, 3/4}

----------------------------------------------------------------------------
(* ClickShield: constants *)

TIMINGS ==
    [desktop |-> [pageLoadGracePeriod   |-> 5000,
                  iframeLoadGracePeriod |-> 5000,
                  minTimeBetweenClicks  |-> 450,
                  afterPopupReblock     |-> 45000,
                  firstClicksToBlock    |-> 6,
                  trustIncrement        |-> 6,
                  trustDecrement        |-> 75,
                  maxTrustForBlocking   |-> 60],
     mobile  |-> [pageLoadGracePeriod   |-> 7000,
                  iframeLoadGracePeriod |-> 7000,
                  minTimeBetweenClicks  |-> 600,
                  afterPopupReblock     |-> 60000,
                  firstClicksToBlock    |-> 8,
                  trustIncrement        |-> 4,
                  trustDecrement        |-> 85,
                  maxTrustForBlocking   |-> 70]]

\* const timings = this.config.isMobile ? this.TIMINGS.mobile : this.TIMINGS.desktop
Timings(cfg) == IF cfg.isMobile THEN TIMINGS.mobile ELSE TIMINGS.desktop

\* Math.min
Min(a, b) == IF a < b THEN a ELSE b
Max(a, b) == IF a > b THEN a ELSE b

\* The return value of a call that is not a click decision
NoRet == [op |-> "none", shouldBlock |-> FALSE, rule |-> 0, at |-> 0,
          prevClickTime |-> 0, prevTrust |-> 0]

\* new ClickShield({enabled: true, isMobile, ...}) at time t
NewClickShieldState(t) ==
    [pageLoadTime |-> t,
     iframeLoadTime |-> t,
     lastClickTime |-> 0,
     lastPopupDetectedTime |-> 0,
     paranoiaUntil |-> 0,
     totalClicks |-> 0,
     blockedClicks |-> 0,
     allowedClicks |-> 0,
     trustLevel |-> 0,
     isShieldActive |-> TRUE,
     isInDangerousPeriod |-> TRUE,
     userHasInteractedWithVideo |-> FALSE]

\* new ClickShield(config): the exported class takes any configuration
NewClickShield(enabled, isMobile) == [enabled |-> enabled, isMobile |-> isMobile]

\* Mutant: createClickShield passing enabled: false
CreateClickShield_Disabled(isMobile) == [enabled |-> FALSE, isMobile |-> isMobile]

\* createClickShield(isMobile, onPopupDetected): the shield is always enabled
CreateClickShield(isMobile) == [enabled |-> TRUE, isMobile |-> isMobile]

----------------------------------------------------------------------------
(* ClickShield.shouldBlockClick: the rule that decides, 0 when the click is  *)
(* allowed. t is Date.now() inside shouldBlockClick, r/RandDen the value of  *)
(* Math.random().                                                            *)
(*   1 page load grace period     2 iframe load grace period                 *)
(*   3 first N clicks             4 clicks too close together                *)
(*   5 recent popup detected      6 very low trust level                     *)
(*   7 trust-based probabilistic block                                       *)

\* Mutant: the branch for very low trust returns false
ActiveShieldRule_FloorAllows(cfg, st, t, r) ==
    LET timings == Timings(cfg) IN
    IF t - st.pageLoadTime < timings.pageLoadGracePeriod THEN 1
    ELSE IF t - st.iframeLoadTime < timings.iframeLoadGracePeriod THEN 2
    ELSE IF st.totalClicks < timings.firstClicksToBlock THEN 3
    ELSE IF st.lastClickTime > 0
            /\ t - st.lastClickTime < timings.minTimeBetweenClicks THEN 4
    ELSE IF st.lastPopupDetectedTime > 0
            /\ t - st.lastPopupDetectedTime < timings.afterPopupReblock THEN 5
    ELSE IF st.trustLevel >= 15
            /\ st.trustLevel < timings.maxTrustForBlocking
            /\ 2 * r * timings.maxTrustForBlocking
                  < RandDen * (timings.maxTrustForBlocking - st.trustLevel)
         THEN 7
    ELSE 0

ActiveShieldRule(cfg, st, t, r) ==
    LET timings == Timings(cfg) IN
    IF t - st.pageLoadTime < timings.pageLoadGracePeriod THEN 1
    ELSE IF t - st.iframeLoadTime < timings.iframeLoadGracePeriod THEN 2
    ELSE IF st.totalClicks < timings.firstClicksToBlock THEN 3
    ELSE IF st.lastClickTime > 0
            /\ t - st.lastClickTime < timings.minTimeBetweenClicks THEN 4
    ELSE IF st.lastPopupDetectedTime > 0
            /\ t - st.lastPopupDetectedTime < timings.afterPopupReblock THEN 5
    ELSE IF st.trustLevel < timings.maxTrustForBlocking
         THEN IF st.trustLevel < 15 THEN 6
              \* Math.random() < (1 - trustLevel / maxTrustForBlocking) * 0.5
              ELSE IF 2 * r * timings.maxTrustForBlocking
                        < RandDen * (timings.maxTrustForBlocking - st.trustLevel)
                   THEN 7
                   ELSE 0
    ELSE 0

\* Mutant: the guard `if (!this.config.enabled) return false` without its `!`
ShouldBlockClickRule_EnabledInverted(cfg, st, t, r) ==
    IF cfg.enabled THEN 0 ELSE ActiveShieldRule(cfg, st, t, r)

ShouldBlockClickRule(cfg, st, t, r) ==
    IF ~cfg.enabled THEN 0 ELSE ActiveShieldRule(cfg, st, t, r)

ShouldBlockClick(cfg, st, t, r) == ShouldBlockClickRule(cfg, st, t, r) # 0

----------------------------------------------------------------------------
(* ClickShield: the state after each public method *)

\* onIframeLoad() at time t
IframeLoaded(st, t) ==
    [st EXCEPT !.iframeLoadTime = t,
               !.totalClicks = 0,
               !.userHasInteractedWithVideo = FALSE]

\* Mutant: the popup subtracts trustDecrement instead of resetting the trust
PopupDetected_Decrements(cfg, st, t) ==
    [st EXCEPT !.lastPopupDetectedTime = t,
               !.paranoiaUntil = t + Timings(cfg).afterPopupReblock,
               !.trustLevel = @ - Timings(cfg).trustDecrement,
               !.isShieldActive = TRUE]

\* onPopupDetected() at time t
PopupDetected(cfg, st, t) ==
    [st EXCEPT !.lastPopupDetectedTime = t,
               !.paranoiaUntil = t + Timings(cfg).afterPopupReblock,
               !.trustLevel = 0,
               !.isShieldActive = TRUE]

\* durationMs ?? timings.afterPopupReblock * 1.5
Undefined == -1
EffectiveDuration(cfg, durationMs) ==
    IF durationMs = Undefined
    THEN (Timings(cfg).afterPopupReblock * 3) \div 2
    ELSE durationMs

\* Mutant: enterParanoia subtracts trustDecrement instead of resetting the trust
ParanoiaEntered_Decrements(cfg, st, t, durationMs) ==
    [st EXCEPT !.lastPopupDetectedTime = t,
               !.paranoiaUntil = t + EffectiveDuration(cfg, durationMs),
               !.trustLevel = @ - Timings(cfg).trustDecrement,
               !.isShieldActive = TRUE]

\* enterParanoia(durationMs) at time t
ParanoiaEntered(cfg, st, t, durationMs) ==
    [st EXCEPT !.lastPopupDetectedTime = t,
               !.paranoiaUntil = t + EffectiveDuration(cfg, durationMs),
               !.trustLevel = 0,
               !.isShieldActive = TRUE]

\* Mutant: a blocked click costs trustIncrement
ClickHandled_PenalizesBlocked(cfg, st, t1, t2, r) ==
    LET st1 == [st EXCEPT !.totalClicks = @ + 1, !.lastClickTime = t1] IN
    IF ShouldBlockClick(cfg, st1, t2, r)
    THEN [st1 EXCEPT !.blockedClicks = @ + 1,
                     !.trustLevel = @ - Timings(cfg).trustIncrement,
                     !.isShieldActive = TRUE]
    ELSE [st1 EXCEPT !.allowedClicks = @ + 1,
                     !.userHasInteractedWithVideo = TRUE,
                     !.trustLevel = Min(100, @ + Timings(cfg).trustIncrement),
                     !.isShieldActive = FALSE]

\* handleClick(): t1 is Date.now() in handleClick, t2 the later Date.now() in
\* shouldBlockClick
ClickHandled(cfg, st, t1, t2, r) ==
    LET st1 == [st EXCEPT !.totalClicks = @ + 1, !.lastClickTime = t1] IN
    IF ShouldBlockClick(cfg, st1, t2, r)
    THEN [st1 EXCEPT !.blockedClicks = @ + 1,
                     !.isShieldActive = TRUE]
    ELSE [st1 EXCEPT !.allowedClicks = @ + 1,
                     !.userHasInteractedWithVideo = TRUE,
                     !.trustLevel = Min(100, @ + Timings(cfg).trustIncrement),
                     !.isShieldActive = FALSE]

\* the rule handleClick's call of shouldBlockClick decided by
ClickRule(cfg, st, t1, t2, r) ==
    ShouldBlockClickRule(cfg,
        [st EXCEPT !.totalClicks = @ + 1, !.lastClickTime = t1], t2, r)

----------------------------------------------------------------------------
(* Strings: String.prototype.startsWith / endsWith / includes / toLowerCase *)

StartsWith(s, p) == Len(s) >= Len(p) /\ SubSeq(s, 1, Len(p)) = p

EndsWith(s, p) ==
    Len(s) >= Len(p) /\ SubSeq(s, Len(s) - Len(p) + 1, Len(s)) = p

Includes(s, p) ==
    \E i \in 1 .. (Len(s) - Len(p) + 1) : SubSeq(s, i, i + Len(p) - 1) = p

UpperCase == "ABCDEFGHIJKLMNOPQRSTUVWXYZ"
LowerCase == "abcdefghijklmnopqrstuvwxyz"

LowerChar(c) ==
    IF \E i \in 1 .. Len(UpperCase) : SubSeq(UpperCase, i, i) = c
    THEN LET i == CHOOSE k \in 1 .. Len(UpperCase) : SubSeq(UpperCase, k, k) = c
         IN SubSeq(LowerCase, i, i)
    ELSE c

RECURSIVE ToLowerCase(_)
ToLowerCase(s) ==
    IF Len(s) = 0 THEN ""
    ELSE LowerChar(SubSeq(s, 1, 1)) \o ToLowerCase(SubSeq(s, 2, Len(s)))

----------------------------------------------------------------------------
(* new URL(url, window.location.href).hostname: the host of an absolute      *)
(* http(s) or protocol-relative URL in lower case, the empty host of a URL   *)
(* with another scheme, the page's host for a relative URL; the constructor  *)
(* throws for an http(s) URL without host.                                   *)

\* window.location.hostname
CurrentHost == "flixnest.app"

InvalidURL == "<TypeError: Invalid URL>"

IsDelimiter(c) == c \in {"/", "?", "#"}

\* the part of s before its first "/", "?" or "#"
BeforeDelimiter(s) ==
    IF \E i \in 1 .. Len(s) : IsDelimiter(SubSeq(s, i, i))
    THEN LET i == CHOOSE k \in 1 .. Len(s) :
                      /\ IsDelimiter(SubSeq(s, k, k))
                      /\ \A j \in 1 .. (k - 1) : ~IsDelimiter(SubSeq(s, j, j))
         IN SubSeq(s, 1, i - 1)
    ELSE s

HostOf(afterSlashes) ==
    IF BeforeDelimiter(afterSlashes) = "" THEN InvalidURL
    ELSE BeforeDelimiter(afterSlashes)

Hostname(url) ==
    LET l == ToLowerCase(url) IN
    IF StartsWith(l, "https://") THEN HostOf(SubSeq(l, 9, Len(l)))
    ELSE IF StartsWith(l, "http://") THEN HostOf(SubSeq(l, 8, Len(l)))
    ELSE IF StartsWith(l, "//") THEN HostOf(SubSeq(l, 3, Len(l)))
    ELSE IF \E sch \in {"blob:", "data:", "about:", "javascript:"} :
                StartsWith(l, sch)
         THEN ""
    ELSE CurrentHost

----------------------------------------------------------------------------
(* createAdBlocker, revision src/unnamed/part_008 *)

whitelistedDomains ==
    {"vidsrc.cc", "vidsrc.to", "vidsrc.me", "vidsrc.net", "vidsrc.xyz"}

\* isWhitelistedVideoURL(url)
IsWhitelistedVideoURL(url) ==
    LET hostname == Hostname(url) IN
    /\ hostname # InvalidURL
    /\ \E domain \in whitelistedDomains :
          hostname = domain \/ EndsWith(hostname, "." \o domain)

\* suspiciousPatterns.some(pattern => pattern.test(url))
MatchesSuspiciousPattern(url) ==
    LET l == ToLowerCase(url) IN
    \/ \E sub \in {"ad_", "ad-", "ad.", "ads_", "ads-", "ads."} : Includes(l, sub)
    \/ \E sub \in {"popup", "click", "track", "redirect", "doubleclick",
                   "googlesyndication", "adservice", "banner", "promo",
                   "affiliate", "betting", "casino", "rajbets", "download",
                   "setup.exe"} : Includes(l, sub)
    \/ EndsWith(l, ".apk")
    \/ EndsWith(l, ".exe")

\* isSuspiciousURL(url)
IsSuspiciousURL(url) ==
    \/ url = "" \/ url = "about:blank"
    \/ MatchesSuspiciousPattern(url)
    \/ StartsWith(url, "blob:") \/ StartsWith(url, "data:")

\* suspiciousPatterns.some(pattern => pattern.test(url)) of
\* isBlockedNavigation in adBlocker.ts
MatchesNavigationPattern(url) ==
    LET l == ToLowerCase(url) IN
    \/ \E sub \in {"ad.", "ads."} : Includes(l, sub)
    \/ \E sub \in {"popup", "click.", "track", "redirect", "doubleclick",
                   "googlesyndication", "amazon-adsystem", "taboola",
                   "outbrain", "adservice", "affiliate", "promo", "banner"} :
          Includes(l, sub)

\* adUrlPatterns.some(pattern => pattern.test(urlString)) of adBlocker.ts
MatchesAdUrlPattern(url) ==
    LET l == ToLowerCase(url) IN
    \/ \E sub \in {"ad.", "ads."} : Includes(l, sub)
    \/ \E sub \in {"popup", "click.", "track", "redirect", "doubleclick",
                   "googlesyndication", "amazon-adsystem", "taboola",
                   "outbrain"} : Includes(l, sub)

\* url?.toString() || '' for the arguments scripts pass: an absent or empty
\* url, about:blank, allow-listed hosts (exact, subdomain, upper case, with a
\* block-listed path), look-alike and unrelated hosts, the page's own host,
\* download URIs, an URL that does not parse
OpenCalls ==
    {<<"", "_blank", "">>,
     <<"about:blank", "_blank", "width=1,height=1">>,
     <<"https://vidsrc.cc/v2/embed/movie/1", "_blank", "">>,
     <<"https://cdn.VidSrc.to/e/1", "_self", "">>,
     <<"https://vidsrc.cc/download/1", "_blank", "">>,
     <<"https://vidsrc.net/taboola", "_blank", "">>,
     <<"https://evil-vidsrc.cc/e/1", "_blank", "">>,
     <<"https://rajbets.com/", "_blank", "">>,
     <<"https://example.com/page", "_blank", "noopener">>,
     <<"/movie/1", "_self", "">>,
     <<"https://flixnest.app/tv/2", "_blank", "">>,
     <<"blob:https://example.com/1", "_blank", "">>,
     <<"data:text/html,hi", "_blank", "">>,
     <<"http://", "_blank", "">>}

\* What a click event hits: no link, or a link with its attributes
NoLink == [href |-> "", target |-> "", download |-> FALSE, isLink |-> FALSE]
ClickTargets ==
    {NoLink,
     [href |-> "/movie/1", target |-> "", download |-> FALSE, isLink |-> TRUE],
     [href |-> "https://rajbets.com/", target |-> "_blank", download |-> FALSE,
      isLink |-> TRUE],
     [href |-> "https://example.com/page", target |-> "_blank",
      download |-> FALSE, isLink |-> TRUE],
     [href |-> "https://example.com/file", target |-> "", download |-> TRUE,
      isLink |-> TRUE],
     [href |-> "javascript:void(0)", target |-> "", download |-> FALSE,
      isLink |-> TRUE]}

\* window.location.origin
Origin == "https://flixnest.app"

\* Values the host application assigns to location.pathname, .search, .hash
LocationValues ==
    [pathname |-> {"/movie/1", "/collections/soundtracks"},
     search   |-> {"?page=2", "?q=popup"},
     hash     |-> {"#cast"}]

\* Destinations of the host application's own navigation, of the embedded
\* player and of ad scripts
NavUrls ==
    {"/movie/1", "/search?q=popup", "/promotions", "https://flixnest.app/tv/2",
     "https://flixnest.app/collections/soundtracks",
     "https://vidsrc.cc/v2/embed/movie/1", "https://rajbets.com/",
     "https://example.com/page", "http://", "javascript:void(0)"}
    \cup {Origin \o v : v \in UNION {LocationValues[p] :
                                        p \in DOMAIN LocationValues}}

\* Every URL the page's scripts and links use
Urls == {call[1] : call \in OpenCalls} \cup {link.href : link \in ClickTargets}
            \cup NavUrls

\* The URL predicates of both revisions, evaluated once per URL
UrlFacts ==
    [u \in Urls |-> [hostname |-> Hostname(u),
                     whitelisted |-> IsWhitelistedVideoURL(u),
                     suspicious |-> IsSuspiciousURL(u),
                     adPattern |-> MatchesAdUrlPattern(u),
                     navPattern |-> MatchesNavigationPattern(u)]]

\* timings[aggressiveness]
AdTimings ==
    [low     |-> [debounce |-> 500, interval |-> 300, suspiciousWindow |-> 1000],
     medium  |-> [debounce |-> 200, interval |-> 150, suspiciousWindow |-> 500],
     high    |-> [debounce |-> 100, interval |-> 50,  suspiciousWindow |-> 300],
     extreme |-> [debounce |-> 10,  interval |-> 20,  suspiciousWindow |-> 200]]

AdTiming(cfg) == AdTimings[cfg.aggressiveness]

\* mergedConfig = {...defaultConfig, ...config} of the revision running
MergedConfig(rev, aggressiveness) ==
    [rev |-> rev, enabled |-> TRUE, aggressiveness |-> aggressiveness]

\* const state: AdBlockerState, after start()
NewAdBlockerState ==
    [blockedCount |-> 0,
     lastInteractionTime |-> 0,
     isActive |-> TRUE,
     userHasInteracted |-> FALSE,
     clickCount |-> 0]

\* Mutant: the timing rule (RULE 3) left out of the wrapper
OpenRule_NoTimingRule(cfg, st, t, urlString) ==
    IF urlString = "" \/ urlString = "about:blank" THEN 1
    ELSE IF UrlFacts[urlString].suspicious THEN 2
    ELSE IF UrlFacts[urlString].hostname = InvalidURL THEN 5
    ELSE IF UrlFacts[urlString].hostname # CurrentHost
            /\ ~UrlFacts[urlString].whitelisted THEN 4
    ELSE 0

\* Mutant: RULE 4 blocks every destination that is not on the page's host
OpenRule_ExternalIgnoresWhitelist(cfg, st, t, urlString) ==
    IF urlString = "" \/ urlString = "about:blank" THEN 1
    ELSE IF UrlFacts[urlString].suspicious THEN 2
    ELSE IF t - st.lastInteractionTime < AdTiming(cfg).suspiciousWindow
            /\ ~UrlFacts[urlString].whitelisted THEN 3
    ELSE IF UrlFacts[urlString].hostname = InvalidURL THEN 5
    ELSE IF UrlFacts[urlString].hostname # CurrentHost THEN 4
    ELSE 0

\* The wrapped window.open of part_008: the rule that blocks the call at time
\* t, 0 when the call goes to the original window.open
\*   1 empty or blank          2 suspicious URL       3 timing attack
\*   4 external, not whitelisted                      5 invalid URL
OpenRule(cfg, st, t, urlString) ==
    IF urlString = "" \/ urlString = "about:blank" THEN 1
    ELSE IF UrlFacts[urlString].suspicious THEN 2
    ELSE IF t - st.lastInteractionTime < AdTiming(cfg).suspiciousWindow
            /\ ~UrlFacts[urlString].whitelisted THEN 3
    ELSE IF UrlFacts[urlString].hostname = InvalidURL THEN 5
    ELSE IF UrlFacts[urlString].hostname # CurrentHost
            /\ ~UrlFacts[urlString].whitelisted THEN 4
    ELSE 0

----------------------------------------------------------------------------
(* createAdBlocker, revision src/src/utils/adBlocker.ts *)

\* The wrapped window.open of adBlocker.ts: 1 empty popup, 2 ad pattern,
\* 0 when the call goes to the original window.open
LegacyOpenRule(urlString) ==
    IF urlString = "" THEN 1
    ELSE IF UrlFacts[urlString].adPattern THEN 2
    ELSE 0

----------------------------------------------------------------------------
(* The wrapped window.open of the revision running *)

WrapperRule(cfg, st, t, urlString) ==
    IF cfg.rev = "part_008" THEN OpenRule(cfg, st, t, urlString)
    ELSE LegacyOpenRule(urlString)

\* createFakeWindow()
FakeWindow == [closed |-> TRUE, from |-> "createFakeWindow"]

\* The window the browser's own window.open returns for these arguments
OriginalWindowOpen(url, target, features) ==
    [closed |-> FALSE, from |-> "originalWindowOpen",
     args |-> <<url, target, features>>]

\* What window.open(url, target, features) returns at time t
WindowOpenResult(cfg, st, t, url, target, features) ==
    IF WrapperRule(cfg, st, t, url) # 0
    THEN FakeWindow
    ELSE OriginalWindowOpen(url, target, features)

\* state after window.open(url, ...) at time t
WindowOpened(cfg, st, t, url) ==
    IF WrapperRule(cfg, st, t, url) # 0
    THEN [st EXCEPT !.blockedCount = @ + 1]
    ELSE st

\* onAdBlocked() calls made by window.open(url, ...): the legacy wrapper does
\* not signal an empty popup
AdBlockedSignals(cfg, st, t, url) ==
    IF WrapperRule(cfg, st, t, url) = 0 THEN 0
    ELSE IF cfg.rev # "part_008" /\ WrapperRule(cfg, st, t, url) = 1 THEN 0
    ELSE 1

\* startWindowMonitor() with window.length = length: the baseline is taken,
\* no poll has run (seen = -1)
NewMonitor(length) ==
    [length |-> length, initialWindowCount |-> length,
     seen |-> -1, seenBefore |-> -1, polled |-> FALSE, raised |-> FALSE,
     blockedBefore |-> 0]

\* No navigation request intercepted yet
NoNav == [op |-> "none", url |-> "", sameTab |-> FALSE, blocked |-> FALSE,
          blockedBefore |-> 0]

\* No window.open call with a block-listed URL yet, no onAdBlocked() call
NoAttempts == [listed |-> 0, signals |-> 0]

NoOpen == [rule |-> 0, url |-> "", target |-> "", features |-> "",
           window |-> [closed |-> FALSE, from |-> "none"],
           blockedBefore |-> 0, signals |-> 0, at |-> 0]

\* part_008 handleClick(event): does it block the click on this target?
ClickBlocked(link) ==
    /\ link.isLink
    /\ \/ link.download
       \/ UrlFacts[link.href].suspicious
       \/ /\ link.target \in {"_blank", "_new"}
          /\ ~UrlFacts[link.href].whitelisted
          /\ link.href # ""
          /\ ~StartsWith(link.href, "#")
       \/ StartsWith(link.href, "javascript:")

\* part_008: state after a click event at time t (handleClick, then
\* preventFirstClickHijack)
Clicked(st, t, link) ==
    [st EXCEPT !.lastInteractionTime = t,
               !.userHasInteracted = TRUE,
               !.clickCount = @ + 1,
               !.blockedCount = IF ClickBlocked(link) THEN @ + 1 ELSE @]

\* Time between two events of the page
OpenDelays(cfg) ==
    {1, AdTiming(cfg).suspiciousWindow - 1, AdTiming(cfg).suspiciousWindow}

----------------------------------------------------------------------------
(* HLSPlayer: the React component around one hls.js engine.  Three revisions *)
(* are in the repository: HLSPlayer.tsx (second half of the file), its       *)
(* earlier revision (first half of the file) and src/unnamed/part_004.       *)

\* useState<string | null>(null)
Null == "<null>"

NetworkError == "networkError"      \* Hls.ErrorTypes.NETWORK_ERROR
MediaError == "mediaError"          \* Hls.ErrorTypes.MEDIA_ERROR
OtherError == "otherError"          \* Hls.ErrorTypes.OTHER_ERROR
MuxError == "muxError"              \* Hls.ErrorTypes.MUX_ERROR

\* let networkRetries = 0; const MAX_RETRIES = ...; the delay of the retry
\* timer; what the browser supports
HlsPlayerConfig(rev, support) ==
    [rev |-> rev,
     support |-> support,
     MAX_RETRIES |-> IF rev = "HLSPlayer" THEN 4
                     ELSE IF rev = "part_004" THEN 6 ELSE 0,
     retryDelay |-> IF rev = "HLSPlayer" THEN 1000
                    ELSE IF rev = "part_004" THEN 2000 ELSE 0]

\* new Hls({...}) followed by attachMedia(video) and loadSource(src).
\* manualLevel is the level the engine is pinned to, -1 when adaptive bitrate
\* selection is on; recoveryCalls counts the calls of startLoad() and
\* recoverMediaError() on the instance; parsed: the manifest of loadSource(src)
\* has been parsed; resumedAt is the value of networkRetries when a fragment
\* was last loaded with no retry pending, -1 before the first.
NewHls ==
    [attached |-> TRUE,
     destroyed |-> FALSE,
     parsed |-> FALSE,
     networkRetries |-> 0,
     manualLevel |-> -1,
     recoveryCalls |-> 0,
     startPosition |-> -1,
     resumedAt |-> -1]

\* hls.destroy(): detaches the media element and removes every listener
Destroyed(hls) == [hls EXCEPT !.destroyed = TRUE, !.attached = FALSE]

\* The <video> element before any media data: readyState HAVE_NOTHING, the
\* duration unknown (0 stands for NaN), no seek in progress, no event waiting
\* to be dispatched to the listeners
NewVideo ==
    [currentTime |-> 0,
     duration |-> 0,
     readyState |-> 0,
     seeking |-> FALSE,
     events |-> <<>>]

\* The component after its first render, before the effects have run: no
\* engine yet, the <video> element mounted and paused. seeks counts the calls
\* of skip and handleSeek, seekTarget is the newTime of the last one.
\* subtitles is the length of the subtitles prop, textTracks the modes of
\* video.textTracks, trackSubs for each of them the entry of subtitles it was
\* built from (stale: an entry of an earlier value of the prop), subLoads the
\* loadSubtitles calls that have not returned,
\* keyCurrentSubtitle and keySubtitles the currentSubtitle and the length of
\* subtitles of the render whose toggleSubtitles the keydown listener closed
\* over; tracksLoaded and userSelected record
\* that a loadSubtitles call has returned and that the user has turned a
\* track on since.
NewPlayer(src) ==
    [src |-> src,
     isLoading |-> TRUE,
     error |-> Null,
     currentQuality |-> -1,
     hlsLevels |-> <<>>,
     paused |-> TRUE,
     hlsRef |-> 0,
     effectHls |-> 0,
     effect |-> "pending",
     nativeListeners |-> 0,
     engines |-> <<>>,
     timers |-> <<>>,
     currentTime |-> 0,
     duration |-> 0,
     isBuffering |-> FALSE,
     seekingRef |-> FALSE,
     video |-> NewVideo,
     seeks |-> 0,
     seekTarget |-> -1,
     subtitles |-> 0,
     textTracks |-> <<>>,
     trackSubs |-> <<>>,
     subLoads |-> <<>>,
     currentSubtitle |-> -1,
     keyCurrentSubtitle |-> -1,
     keySubtitles |-> 0,
     tracksLoaded |-> FALSE,
     userSelected |-> FALSE]

\* videoRef.current: the <video> element is rendered unless the error view is
VideoMounted(p) == p.error = Null

\* setTimeout(callback, delay)
Timer(kind, delay, inst, details) ==
    [kind |-> kind, delay |-> delay, inst |-> inst, details |-> details]

SetTimeout(p, timer) == [p EXCEPT !.timers = Append(@, timer)]

\* A pending timer can run next unless a timer set before it has a delay
\* that is not longer
CanFire(p, j) ==
    /\ j \in 1 .. Len(p.timers)
    /\ \A i \in 1 .. (j - 1) : p.timers[i].delay > p.timers[j].delay

RemoveAt(s, j) == SubSeq(s, 1, j - 1) \o SubSeq(s, j + 1, Len(s))

\* The live engine instances, those attached to the media element
LiveEngines(p) == {i \in 1 .. Len(p.engines) : ~p.engines[i].destroyed}
AttachedEngines(p) == {i \in 1 .. Len(p.engines) : p.engines[i].attached}

\* Mutant: the cleanup forgets the engine of the source it leaves
EffectCleanup_KeepsEngine(p, newSrc) ==
    [p EXCEPT !.hlsRef = 0, !.effectHls = 0, !.src = newSrc,
              !.effect = "pending"]

\* The cleanup of the init effect when src changes:
\* if (hls) hls.destroy(); hlsRef.current = null
EffectCleanup(p, newSrc) ==
    [p EXCEPT !.engines = IF p.effectHls # 0
                          THEN [@ EXCEPT ![p.effectHls] = Destroyed(@)]
                          ELSE @,
              !.hlsRef = 0,
              !.effectHls = 0,
              !.src = newSrc,
              !.effect = "pending"]

\* The body of the init effect
EffectRun(cfg, p) ==
    IF ~VideoMounted(p) \/ p.src = ""
    THEN [p EXCEPT !.effect = "done"]
    ELSE LET q == [p EXCEPT !.effect = "done", !.isLoading = TRUE,
                            !.error = Null, !.hlsLevels = <<>>]
         IN IF cfg.support = "hls.js"
            THEN [q EXCEPT !.engines = Append(@, NewHls),
                           !.hlsRef = Len(p.engines) + 1,
                           !.effectHls = Len(p.engines) + 1]
            ELSE IF cfg.support = "native"
            THEN [q EXCEPT !.nativeListeners = 1]
            ELSE [q EXCEPT !.error =
                             IF cfg.rev = "HLSPlayer"
                             THEN "HLS playback not supported"
                             ELSE "HLS playback not supported in this browser",
                           !.isLoading = FALSE]

\* hls.startLoad() / hls.recoverMediaError() on the instance the handler
\* closed over
StartLoad(p, inst) ==
    [p EXCEPT !.engines[inst].recoveryCalls = @ + 1,
              !.engines[inst].startPosition = -1]
RecoverMediaError(p, inst) == [p EXCEPT !.engines[inst].recoveryCalls = @ + 1]

\* setError(message); setIsLoading(false)
ShowError(p, message) == [p EXCEPT !.error = message, !.isLoading = FALSE]

NetworkMessage(cfg) ==
    IF cfg.rev = "HLSPlayer" THEN "Network error - please retry"
    ELSE "Network error - please check connection and retry"

\* Hls.Events.ERROR handler of the earlier revision of HLSPlayer.tsx
OnHlsErrorEarlier(p, inst, data) ==
    IF ~data.fatal THEN p
    ELSE IF data.type = NetworkError THEN StartLoad(p, inst)
    ELSE IF data.type = MediaError THEN RecoverMediaError(p, inst)
    ELSE ShowError(p, "Playback error: " \o data.details)

\* Mutant: the retry budget is compared with <= (one retry too many)
OnFatalNetworkError_OneMore(cfg, p, inst, data) ==
    IF p.engines[inst].networkRetries <= cfg.MAX_RETRIES
    THEN SetTimeout([p EXCEPT !.engines[inst].networkRetries = @ + 1],
                    Timer("startLoad", cfg.retryDelay, inst, data.details))
    ELSE ShowError(p, NetworkMessage(cfg))

\* case Hls.ErrorTypes.NETWORK_ERROR of HLSPlayer.tsx and part_004
OnFatalNetworkError(cfg, p, inst, data) ==
    IF p.engines[inst].networkRetries < cfg.MAX_RETRIES
    THEN SetTimeout([p EXCEPT !.engines[inst].networkRetries = @ + 1],
                    Timer("startLoad", cfg.retryDelay, inst, data.details))
    ELSE ShowError(p, NetworkMessage(cfg))

\* Mutant: a non-fatal network error is handled like a fatal one
OnHlsError_FatalIgnored(cfg, p, inst, data) ==
    IF cfg.rev = "HLSPlayer_earlier" THEN OnHlsErrorEarlier(p, inst, data)
    ELSE IF data.type = NetworkError
    THEN OnFatalNetworkError(cfg, p, inst, data)
    ELSE IF ~data.fatal THEN p
    ELSE IF data.type = MediaError THEN RecoverMediaError(p, inst)
    ELSE SetTimeout(RecoverMediaError(p, inst),
                    Timer("setError", 3000, inst, data.details))

\* Hls.Events.ERROR handler
OnHlsError(cfg, p, inst, data) ==
    IF cfg.rev = "HLSPlayer_earlier" THEN OnHlsErrorEarlier(p, inst, data)
    ELSE IF ~data.fatal THEN p
    ELSE IF data.type = NetworkError
    THEN OnFatalNetworkError(cfg, p, inst, data)
    ELSE IF data.type = MediaError THEN RecoverMediaError(p, inst)
    ELSE SetTimeout(RecoverMediaError(p, inst),
                    Timer("setError", 3000, inst, data.details))

\* The callback of a timer
TimerCallback(p, timer) ==
    IF timer.kind = "startLoad" THEN StartLoad(p, timer.inst)
    ELSE IF timer.kind = "setError"
    THEN IF ~VideoMounted(p) \/ ~p.paused THEN p
         ELSE ShowError(p, "Playback error: " \o timer.details)
    ELSE IF p.hlsRef # 0
    THEN [p EXCEPT !.engines[p.hlsRef].manualLevel = -1]
    ELSE p

\* Timer j runs
TimerFired(p, j) ==
    TimerCallback([p EXCEPT !.timers = RemoveAt(@, j)], p.timers[j])

\* data.levels.map(...).sort((a, b) => b.height - a.height): the level
\* indices (from 0) by falling height, equal heights in manifest order
RECURSIVE SortedLevels(_, _)
SortedLevels(heights, rest) ==
    IF rest = {} THEN <<>>
    ELSE LET top == CHOOSE i \in rest :
                       \A j \in rest : \/ heights[i] > heights[j]
                                       \/ heights[i] = heights[j] /\ i <= j
         IN <<[index |-> top - 1, height |-> heights[top]]>>
            \o SortedLevels(heights, rest \ {top})

HlsLevels(heights) == SortedLevels(heights, DOMAIN heights)

\* levels[levels.length - 1]?.index || 0
LowestLevel(heights) == HlsLevels(heights)[Len(heights)].index

\* data.levels.reduce((maxIdx, level, idx, arr) =>
\*     level.height > arr[maxIdx].height ? idx : maxIdx, 0)
HighestLevel(heights) == HlsLevels(heights)[1].index

\* Hls.Events.MANIFEST_PARSED handler; plays: video.play() got through
OnManifestParsed(cfg, p, inst, heights, plays) ==
    LET q == [p EXCEPT !.engines[inst].parsed = TRUE,
                       !.hlsLevels = HlsLevels(heights),
                       !.isLoading = FALSE,
                       !.paused = IF plays THEN FALSE ELSE @]
    IN IF cfg.rev = "HLSPlayer_earlier"
       THEN [q EXCEPT !.hlsLevels = [i \in DOMAIN heights |->
                                        [index |-> i - 1, height |-> heights[i]]]]
       ELSE IF Len(heights) = 0 THEN q
       ELSE IF cfg.rev = "HLSPlayer"
       THEN SetTimeout([q EXCEPT !.engines[inst].manualLevel =
                                     LowestLevel(heights),
                                 !.currentQuality = -1],
                       Timer("abr", 3000, inst, ""))
       ELSE [q EXCEPT !.engines[inst].manualLevel = HighestLevel(heights),
                      !.currentQuality = HighestLevel(heights)]

\* selectQuality(level): nextLevel = level; currentLevel = level
SelectQuality(p, level) ==
    IF p.hlsRef # 0
    THEN [p EXCEPT !.engines[p.hlsRef].manualLevel = level,
                   !.currentQuality = level]
    ELSE p

----------------------------------------------------------------------------
(* The player in its page: the engine's events, the timers, the user *)

\* The src prop: the sources the page plays, each at most once after the first
FirstSource == "https://cdn.example/a/master.m3u8"
Sources == {FirstSource, "https://cdn.example/b/master.m3u8"}

\* data.levels of a manifest, by height
Manifests == {<<>>, <<1080, 480, 720>>}

\* data of Hls.Events.ERROR
ErrorEvents ==
    {[fatal |-> FALSE, type |-> MediaError, details |-> "bufferStalledError"],
     [fatal |-> FALSE, type |-> NetworkError, details |-> "fragLoadError"],
     [fatal |-> TRUE, type |-> NetworkError, details |-> "manifestLoadError"],
     [fatal |-> TRUE, type |-> MediaError, details |-> "bufferAppendError"],
     [fatal |-> TRUE, type |-> OtherError, details |-> "internalException"]}

NoEvent ==
    [op |-> "none", inst |-> 0, fatal |-> FALSE, type |-> "",
     errorBefore |-> Null, retriesBefore |-> 0, timersBefore |-> 0,
     callsBefore |-> 0, level |-> -1,
     loadingBefore |-> FALSE, manualBefore |-> -1]

\* What the handler running now found when it started
Observed(op, p, inst) ==
    [NoEvent EXCEPT
        !.op = op,
        !.inst = inst,
        !.errorBefore = p.error,
        !.timersBefore = Len(p.timers),
        !.retriesBefore = IF inst # 0 THEN p.engines[inst].networkRetries ELSE 0,
        !.callsBefore = IF inst # 0 THEN p.engines[inst].recoveryCalls ELSE 0,
        !.loadingBefore = p.isLoading,
        !.manualBefore = IF p.hlsRef # 0
                         THEN p.engines[p.hlsRef].manualLevel ELSE -1]

----------------------------------------------------------------------------
(* getMappleTVStream: one request to the scraper backend *)

\* setTimeout(() => controller.abort(), 120000)
ExtractTimeout == 120000

\* A StreamResponse; "" stands for an absent m3u8Url or error, m3u8IsString
\* is false when the JSON carries something else than a string there
StreamResponse(success, m3u8Url, m3u8IsString, error) ==
    [success |-> success, m3u8Url |-> m3u8Url, m3u8IsString |-> m3u8IsString,
     error |-> error]

Failure(message) == StreamResponse(FALSE, "", TRUE, message)

\* return { success: false, error: 'Timeout - extraction took too long' }
TimeoutResponse == Failure("Timeout - extraction took too long")

\* What response.json() can deliver
JsonBodies ==
    {StreamResponse(TRUE, "https://proxy.heistotron.uk/m/1.m3u8", TRUE, ""),
     StreamResponse(TRUE, "https://proxy.heistotron.uk/m/2.m3u8", TRUE, ""),
     StreamResponse(TRUE, "", TRUE, ""),
     StreamResponse(TRUE, "42", FALSE, ""),
     StreamResponse(FALSE, "", TRUE, "No stream found"),
     StreamResponse(FALSE, "", TRUE, ""),
     StreamResponse(FALSE, "https://proxy.heistotron.uk/m/1.m3u8", TRUE, "")}

\* The call after `fetch(url, {signal})` has been issued: the abort timer is
\* armed, the fetch is pending; id numbers the calls in the order of their start
NewCall(t, id) ==
    [id |-> id, startedAt |-> t, phase |-> "fetching", ok |-> TRUE]

\* fetch resolved with the response headers: clearTimeout(timeoutId); the body
\* (response.text() or response.json()) is still to be read
HeadersReceived(call, ok) == [call EXCEPT !.phase = "reading", !.ok = ok]

\* The abort timer is armed
TimerArmed(call) == call.phase = "fetching"

\* The body has arrived: the value the call resolves to; parsed is false
\* when response.json() throws
BodyRead(call, body, parsed) ==
    IF ~call.ok THEN Failure("HTTP 502: Bad Gateway")
    ELSE IF ~parsed THEN Failure("Unexpected token < in JSON at position 0")
    ELSE body

\* fetch rejected: by the abort (AbortError) or by the network
FetchRejected(aborted) ==
    IF aborted THEN TimeoutResponse ELSE Failure("Failed to fetch")

----------------------------------------------------------------------------
(* MovieDetail (src/unnamed/part_007): the detail page that resolves the      *)
(* stream and mounts the HLS player                                           *)

\* The page while the movie details are being fetched
NewDetail(autoplay) ==
    [autoplay |-> autoplay,
     loading |-> TRUE,
     movie |-> FALSE,
     error |-> Null,
     isPlaying |-> FALSE,
     streamLoading |-> FALSE,
     streamError |-> Null,
     hlsUrl |-> "",
     calls |-> <<>>,
     started |-> 0]

\* JavaScript truthiness of a string | null
Truthy(s) == s # Null /\ s # ""

\* The page renders its hero section (not the loader, not the error page)
PageShown(d) == ~d.loading /\ d.error = Null /\ d.movie

\* {streamError && !streamLoading && (...)} inside {isPlaying ? ...}
StreamErrorShown(d) ==
    PageShown(d) /\ d.isPlaying /\ Truthy(d.streamError) /\ ~d.streamLoading

\* {hlsUrl && !streamLoading && !streamError && (<HLSPlayer .../>)}
HLSPlayerMounted(d) ==
    /\ PageShown(d) /\ d.isPlaying
    /\ d.hlsUrl # "" /\ ~d.streamLoading /\ ~Truthy(d.streamError)

\* getProxiedM3U8Url(originalUrl, referer); the percent-encoding of the query
\* and the referer parameter are left out: the page only tests hlsUrl for
\* emptiness
GetProxiedUrl(originalUrl) ==
    IF Includes(ToLowerCase(originalUrl), "proxy.heistotron.uk")
    THEN originalUrl
    ELSE "https://abhishek1996-fluxnest.hf.space/api/proxy/m3u8?url="
            \o originalUrl

\* handlePlay up to its await: the request goes out at time t
PlayStarted(d, t) ==
    [d EXCEPT !.isPlaying = TRUE,
              !.streamLoading = TRUE,
              !.streamError = Null,
              !.calls = Append(@, NewCall(t, d.started + 1)),
              !.started = @ + 1]

\* The autoplay effect after a render at time t:
\* if (autoplay && movie && !isPlaying) handlePlay()
AutoplayEffect(d, t) ==
    IF d.autoplay /\ d.movie /\ ~d.isPlaying THEN PlayStarted(d, t) ELSE d

\* Mutant: a failed resolution only stops the spinner
StreamResolved_ErrorDropped(d, response) ==
    IF response.success /\ response.m3u8Url # "" /\ response.m3u8IsString
    THEN [d EXCEPT !.hlsUrl = GetProxiedUrl(response.m3u8Url),
                   !.streamLoading = FALSE]
    ELSE [d EXCEPT !.streamLoading = FALSE]

\* handlePlay after its await: the branches on the response, and the catch
\* for the TypeError of getProxiedUrl on an m3u8Url that is no string
StreamResolved(d, response) ==
    IF response.success /\ response.m3u8Url # ""
    THEN IF response.m3u8IsString
         THEN [d EXCEPT !.hlsUrl = GetProxiedUrl(response.m3u8Url),
                        !.streamLoading = FALSE]
         ELSE [d EXCEPT !.streamError =
                            "originalUrl.toLowerCase is not a function",
                        !.streamLoading = FALSE]
    ELSE [d EXCEPT !.streamError = IF response.error # ""
                                   THEN response.error
                                   ELSE "Failed to extract stream",
                   !.streamLoading = FALSE]

\* What the call that settled last resolved to, and when
NoCall == [op |-> "none", id |-> 0, startedAt |-> 0, at |-> 0,
           response |-> Failure(""), wasPlaying |-> FALSE,
           hlsUrlBefore |-> "", streamErrorBefore |-> Null,
           streamLoadingBefore |-> FALSE]

Settled(call, t, response, d) ==
    [op |-> "settled", id |-> call.id, startedAt |-> call.startedAt, at |-> t,
     response |-> response, wasPlaying |-> d.isPlaying,
     hlsUrlBefore |-> d.hlsUrl, streamErrorBefore |-> d.streamError,
     streamLoadingBefore |-> d.streamLoading]

----------------------------------------------------------------------------
(* The player page, the window, the scraper backend, the browser storage *)

\* What the last run of handlePopupDetected came to: how often it was
\* entered, how often it called ClickShield.onPopupDetected, whether the run
\* ended in a RangeError (call stack exhausted)
NoHandling ==
    [op |-> "none", entered |-> 0, shieldCalls |-> 0, thrown |-> FALSE,
     popupsBefore |-> 0]

\* PlayerPage after its first render and its effects: the click shield is
\* created, the blur and visibilitychange listeners are installed. timeouts
\* are the pending setTimeout callbacks with the time they are due.
NewPage ==
    [popupsBlocked |-> 0,
     shieldActive |-> TRUE,
     showShieldUI |-> TRUE,
     showPopupNotification |-> FALSE,
     shieldReady |-> TRUE,
     lastBlurTime |-> 0,
     timeouts |-> <<>>,
     last |-> NoHandling]

\* Ad-blocker instances created on one page
MaxInstances == 2

\* start() calls over all instances
MaxStarts == 3

\* The closure variables of one createAdBlocker() call; originalWindowOpen
\* is -1 for null, else the function it saved (0 the browser's window.open,
\* i the wrapper installed by instance i)
NewInstance ==
    [isActive |-> FALSE,
     originalWindowOpen |-> -1,
     focusInterval |-> FALSE,
     windowCheckInterval |-> FALSE,
     sanitizeInterval |-> FALSE,
     locationDescriptors |-> FALSE,
     cycles |-> 0]

NoTask == [kind |-> "", owner |-> 0, cycle |-> 0, active |-> FALSE]

\* The window before any ad blocker has started: open is the function
\* installed as window.open, setters the owner of the href/pathname/search/
\* hash overrides on window.location, wrappers the layers around
\* location.replace and location.assign (outermost last), timers the
\* running intervals, listeners the registered event listeners
NewWindow ==
    [open |-> 0,
     setters |-> 0,
     wrappers |-> <<>>,
     timers |-> {},
     listeners |-> {},
     instances |-> [i \in 1..MaxInstances |-> NewInstance],
     starts |-> 0,
     lastTask |-> NoTask]

\* Extraction requests the backend serves
MaxRequests == 2

\* No m3u8 response captured: content is the content whose page produced
\* the response, master whether the URL has master, playlist or index in it
NoMedia == [content |-> "", master |-> FALSE]

\* One GET /api/mappletv/extract: its contentId, how far the handler has
\* run, whether its responseHandler is registered on the page, its
\* foundMedia and the m3u8Url it answered with
NewRequest ==
    [contentId |-> "",
     pc |-> "idle",
     listening |-> FALSE,
     foundMedia |-> NoMedia,
     m3u8Url |-> NoMedia,
     success |-> FALSE]

\* The backend before any request: manifest is the upstream playlist of the
\* last /api/proxy/m3u8 request, output the playlist sent back;
\* pageInstance is the content whose page the shared browser page shows
\* ("" for about:blank)
NewBackend ==
    [manifest |-> <<>>,
     output |-> <<>>,
     pageInstance |-> "",
     requests |-> [r \in 1..MaxRequests |-> NewRequest]]

\* Changes the user makes to the stored list, over both tabs
MaxChanges == 2

\* The tabs the app is open in
Tabs == {1, 2}

\* JSON.stringify(value) and JSON.parse(text) of a list
Stringify(value) == [json |-> value]

Parse(text) == text.json

\* useLocalStorage(key, initialValue) in one tab after its first render and
\* effect: storedValue, whether the effect on [key, storedValue] is due,
\* and the storage events dispatched to the tab and not yet handled
NewTab ==
    [storedValue |-> <<>>,
     effectDue |-> FALSE,
     events |-> <<>>]

\* localStorage holding the key, and the app open in two tabs
NewStorage ==
    [item |-> Stringify(<<>>),
     tabs |-> [t \in Tabs |-> NewTab],
     changes |-> 0,
     actor |-> 0]

----------------------------------------------------------------------------
(* Inputs *)

\* Time that passes between two events: the click spacing, the load grace
\* period, the popup re-block window (events with no time between them are
\* 0 or 1 ms apart)
Delays(cfg) ==
    {Timings(cfg).minTimeBetweenClicks, Timings(cfg).iframeLoadGracePeriod,
     Timings(cfg).afterPopupReblock}

\* Math.random() * RandDen
Rand == 0 .. (RandDen - 1)

\* The values of Math.random() that shouldBlockClick can read: it calls
\* Math.random() only for a trust level in [15, maxTrustForBlocking)
RandFor(cfg, st) ==
    IF 15 <= st.trustLevel /\ st.trustLevel < Timings(cfg).maxTrustForBlocking
    THEN Rand
    ELSE {0}

\* Arguments of enterParanoia
DurationArgs == {Undefined, 1000}

----------------------------------------------------------------------------
(* Actions *)

Init ==
    /\ now = Epoch
    /\ \E m \in BOOLEAN : config = CreateClickShield(m)
    /\ state = NewClickShieldState(Epoch)
    /\ ret = NoRet
    /\ ticks = 0
    /\ adConfig = MergedConfig("part_008", "extreme")
    /\ adState = NewAdBlockerState
    /\ opened = NoOpen
    /\ attempts = NoAttempts
    /\ nav = NoNav
    /\ monitor = NewMonitor(0)
    /\ hlsConfig = HlsPlayerConfig("HLSPlayer", "hls.js")
    /\ player = NewPlayer("")
    /\ lastEv = NoEvent
    /\ detail = NewDetail(FALSE)
    /\ lastCall = NoCall
    /\ page = NewPage
    /\ win = NewWindow
    /\ backend = NewBackend
    /\ storage = NewStorage

\* Time passes
Advance ==
    /\ ticks < MaxTicks
    /\ \E d \in Delays(config) : now' = now + d
    /\ ticks' = ticks + 1
    /\ ret' = NoRet
    /\ UNCHANGED <<config, state>>
    /\ UNCHANGED <<adVars, playerVars, detailVars, siteVars>>

OnIframeLoad ==
    /\ state' = IframeLoaded(state, now)
    /\ ret' = [NoRet EXCEPT !.op = "onIframeLoad"]
    /\ UNCHANGED <<now, config, ticks>>
    /\ UNCHANGED <<adVars, playerVars, detailVars, siteVars>>

OnPopupDetected ==
    /\ state' = PopupDetected(config, state, now)
    /\ ret' = [NoRet EXCEPT !.op = "onPopupDetected"]
    /\ UNCHANGED <<now, config, ticks>>
    /\ UNCHANGED <<adVars, playerVars, detailVars, siteVars>>

EnterParanoia ==
    /\ \E durationMs \in DurationArgs :
          state' = ParanoiaEntered(config, state, now, durationMs)
    /\ ret' = [NoRet EXCEPT !.op = "enterParanoia"]
    /\ UNCHANGED <<now, config, ticks>>
    /\ UNCHANGED <<adVars, playerVars, detailVars, siteVars>>

\* A direct call of the public shouldBlockClick(): a pure decision
CallShouldBlockClick ==
    /\ \E r \in RandFor(config, state) :
          ret' = [op |-> "shouldBlockClick",
                  shouldBlock |-> ShouldBlockClick(config, state, now, r),
                  rule |-> ShouldBlockClickRule(config, state, now, r),
                  at |-> now,
                  prevClickTime |-> state.lastClickTime,
                  prevTrust |-> state.trustLevel]
    /\ UNCHANGED <<now, config, state, ticks>>
    /\ UNCHANGED <<adVars, playerVars, detailVars, siteVars>>

\* handleClick() called d ms from now
HandleClickAfter(d) ==
    /\ state.blockedClicks + state.allowedClicks < MaxClicks
    /\ now' = now + d
    /\ \E r \in RandFor(config, state) :
          /\ state' = ClickHandled(config, state, now', now', r)
          /\ ret' = [op |-> "handleClick",
                     shouldBlock |-> (ClickRule(config, state, now', now', r) # 0),
                     rule |-> ClickRule(config, state, now', now', r),
                     at |-> now',
                     prevClickTime |-> state.lastClickTime,
                     prevTrust |-> state.trustLevel]
    /\ UNCHANGED <<config, ticks>>
    /\ UNCHANGED <<adVars, playerVars, detailVars, siteVars>>

HandleClick == HandleClickAfter(0)

Next ==
    \/ Advance
    \/ OnIframeLoad
    \/ OnPopupDetected
    \/ EnterParanoia
    \/ CallShouldBlockClick
    \/ HandleClick

Spec == Init /\ [][Next]_vars

\* The decision alone: shouldBlockClick() called on shields in the states
\* that allowed clicks, handled clicks and popup detections leave behind

\* trustLevel after k allowed clicks
TrustAfter(cfg, k) == Min(100, k * Timings(cfg).trustIncrement)

\* Allowed clicks until the trust is clamped at 100
MaxAllowed == 25

DecideInit ==
    /\ now = Epoch
    /\ \E m \in BOOLEAN : config = CreateClickShield(m)
    /\ \E k \in 0 .. MaxAllowed, c \in BOOLEAN,
          click \in {0, Epoch}, popup \in {0, Epoch} :
          state = [NewClickShieldState(Epoch) EXCEPT
                      !.trustLevel = TrustAfter(config, k),
                      !.allowedClicks = k,
                      !.totalClicks = IF c THEN Timings(config).firstClicksToBlock
                                      ELSE 0,
                      !.lastClickTime = click,
                      !.lastPopupDetectedTime = popup,
                      !.paranoiaUntil =
                          IF popup = 0 THEN 0
                          ELSE popup + Timings(config).afterPopupReblock]
    /\ ret = NoRet
    /\ ticks = 0
    /\ adConfig = MergedConfig("part_008", "extreme")
    /\ adState = NewAdBlockerState
    /\ opened = NoOpen
    /\ attempts = NoAttempts
    /\ nav = NoNav
    /\ monitor = NewMonitor(0)
    /\ hlsConfig = HlsPlayerConfig("HLSPlayer", "hls.js")
    /\ player = NewPlayer("")
    /\ lastEv = NoEvent
    /\ detail = NewDetail(FALSE)
    /\ lastCall = NoCall
    /\ page = NewPage
    /\ win = NewWindow
    /\ backend = NewBackend
    /\ storage = NewStorage

DecideNext ==
    \/ Advance
    \/ CallShouldBlockClick

DecideSpec == DecideInit /\ [][DecideNext]_vars

\* The same calls on a shield built with the constructor of the exported
\* class, enabled or not
ClassInit ==
    /\ now = Epoch
    /\ \E e \in BOOLEAN, m \in BOOLEAN : config = NewClickShield(e, m)
    /\ state = NewClickShieldState(Epoch)
    /\ ret = NoRet
    /\ ticks = 0
    /\ adConfig = MergedConfig("part_008", "extreme")
    /\ adState = NewAdBlockerState
    /\ opened = NoOpen
    /\ attempts = NoAttempts
    /\ nav = NoNav
    /\ monitor = NewMonitor(0)
    /\ hlsConfig = HlsPlayerConfig("HLSPlayer", "hls.js")
    /\ player = NewPlayer("")
    /\ lastEv = NoEvent
    /\ detail = NewDetail(FALSE)
    /\ lastCall = NoCall
    /\ page = NewPage
    /\ win = NewWindow
    /\ backend = NewBackend
    /\ storage = NewStorage

ClassSpec == ClassInit /\ [][Next]_vars

----------------------------------------------------------------------------
(* A user who keeps clicking the shield: no popup is detected, the grace    *)
(* periods elapse first, and every click comes at least                      *)
(* minTimeBetweenClicks after the previous one.                              *)

\* Gaps between two clicks of the patient user
ClickGaps(cfg) ==
    {Timings(cfg).minTimeBetweenClicks, Timings(cfg).minTimeBetweenClicks + 1,
     Timings(cfg).iframeLoadGracePeriod}

GraceElapsed ==
    /\ now - state.pageLoadTime >= Timings(config).pageLoadGracePeriod
    /\ now - state.iframeLoadTime >= Timings(config).iframeLoadGracePeriod

UserWaits ==
    /\ ~GraceElapsed
    /\ now' = now + Timings(config).iframeLoadGracePeriod
    /\ ret' = NoRet
    /\ UNCHANGED <<config, state, ticks>>
    /\ UNCHANGED <<adVars, playerVars, detailVars, siteVars>>

UserClicks ==
    /\ GraceElapsed
    /\ \E d \in ClickGaps(config) : HandleClickAfter(d)

UserNext == UserWaits \/ UserClicks

UserSpec == Init /\ [][UserNext]_vars /\ WF_vars(UserNext)

----------------------------------------------------------------------------
(* The page with an ad blocker started: either revision of createAdBlocker *)

OpenInit ==
    /\ now = Epoch
    /\ config = CreateClickShield(FALSE)
    /\ state = NewClickShieldState(Epoch)
    /\ ret = NoRet
    /\ ticks = 0
    /\ \/ \E a \in {"low", "medium", "high", "extreme"} :
             adConfig = MergedConfig("part_008", a)
       \/ adConfig = MergedConfig("adBlocker.ts", "high")
    /\ adState = NewAdBlockerState
    /\ opened = NoOpen
    /\ attempts = NoAttempts
    /\ nav = NoNav
    /\ monitor = NewMonitor(0)
    /\ hlsConfig = HlsPlayerConfig("HLSPlayer", "hls.js")
    /\ player = NewPlayer("")
    /\ lastEv = NoEvent
    /\ detail = NewDetail(FALSE)
    /\ lastCall = NoCall
    /\ page = NewPage
    /\ win = NewWindow
    /\ backend = NewBackend
    /\ storage = NewStorage

OpenAdvance ==
    /\ ticks < MaxTicks
    /\ \E d \in OpenDelays(adConfig) : now' = now + d
    /\ ticks' = ticks + 1
    /\ opened' = NoOpen
    /\ UNCHANGED <<adConfig, adState, attempts, nav, monitor>>
    /\ UNCHANGED <<shieldVars, playerVars, detailVars, siteVars>>

\* A click event reaches the capture-phase listeners of part_008
DocumentClick ==
    /\ adConfig.rev = "part_008"
    /\ adState.clickCount < MaxGestures
    /\ adState.blockedCount < MaxBlocked
    /\ \E link \in ClickTargets : adState' = Clicked(adState, now, link)
    /\ opened' = NoOpen
    /\ UNCHANGED <<now, ticks, adConfig, attempts, nav, monitor>>
    /\ UNCHANGED <<shieldVars, playerVars, detailVars, siteVars>>

\* A script calls window.open(url, target, features)
WindowOpen ==
    /\ adState.blockedCount < MaxBlocked
    /\ \E call \in OpenCalls :
          /\ adState' = WindowOpened(adConfig, adState, now, call[1])
          /\ opened' = [rule |-> WrapperRule(adConfig, adState, now, call[1]),
                        url |-> call[1],
                        target |-> call[2],
                        features |-> call[3],
                        window |-> WindowOpenResult(adConfig, adState, now,
                                                    call[1], call[2], call[3]),
                        blockedBefore |-> adState.blockedCount,
                        signals |-> AdBlockedSignals(adConfig, adState, now,
                                                     call[1]),
                        at |-> now]
    /\ UNCHANGED <<now, ticks, adConfig, attempts, nav, monitor>>
    /\ UNCHANGED <<shieldVars, playerVars, detailVars, siteVars>>

OpenNext ==
    \/ OpenAdvance
    \/ DocumentClick
    \/ WindowOpen

OpenSpec == OpenInit /\ [][OpenNext]_vars

----------------------------------------------------------------------------
(* The player alone in its page *)

PlayerInit ==
    /\ now = Epoch
    /\ config = CreateClickShield(FALSE)
    /\ state = NewClickShieldState(Epoch)
    /\ ret = NoRet
    /\ ticks = 0
    /\ adConfig = MergedConfig("part_008", "extreme")
    /\ adState = NewAdBlockerState
    /\ opened = NoOpen
    /\ attempts = NoAttempts
    /\ nav = NoNav
    /\ monitor = NewMonitor(0)
    /\ \E rev \in {"HLSPlayer", "part_004", "HLSPlayer_earlier"},
          support \in {"hls.js", "native", "none"} :
          hlsConfig = HlsPlayerConfig(rev, support)
    /\ \E src \in {"", FirstSource} : player = NewPlayer(src)
    /\ lastEv = NoEvent
    /\ detail = NewDetail(FALSE)
    /\ lastCall = NoCall
    /\ page = NewPage
    /\ win = NewWindow
    /\ backend = NewBackend
    /\ storage = NewStorage

\* React runs the init effect after the render
RunEffect ==
    /\ player.effect = "pending"
    /\ player' = EffectRun(hlsConfig, player)
    /\ lastEv' = NoEvent
    /\ UNCHANGED hlsConfig
    /\ UNCHANGED <<now, ticks, shieldVars, adVars, detailVars, siteVars>>

\* The src prop changes: React runs the cleanup of the init effect
SrcChanges ==
    /\ player.effect = "done"
    /\ Len(player.engines) < Cardinality(Sources)
    /\ \E newSrc \in Sources \ {player.src} :
          player' = EffectCleanup(player, newSrc)
    /\ lastEv' = NoEvent
    /\ UNCHANGED hlsConfig
    /\ UNCHANGED <<now, ticks, shieldVars, adVars, detailVars, siteVars>>

\* The engine emits MANIFEST_PARSED
ManifestParsed ==
    /\ player.effect = "done"
    /\ Len(player.timers) < MaxTimers
    /\ \E inst \in LiveEngines(player), heights \in Manifests,
          plays \in BOOLEAN :
          /\ ~player.engines[inst].parsed
          /\ player' = OnManifestParsed(hlsConfig, player, inst, heights, plays)
          /\ lastEv' = Observed("manifestParsed", player, inst)
    /\ UNCHANGED hlsConfig
    /\ UNCHANGED <<now, ticks, shieldVars, adVars, detailVars, siteVars>>

\* The engine emits ERROR
HlsError ==
    /\ player.effect = "done"
    /\ Len(player.timers) < MaxTimers
    /\ \E inst \in LiveEngines(player), data \in ErrorEvents :
          /\ player.engines[inst].recoveryCalls - player.engines[inst].networkRetries
                < MaxRecoveries
          /\ player' = OnHlsError(hlsConfig, player, inst, data)
          /\ lastEv' = [Observed("error", player, inst) EXCEPT
                           !.fatal = data.fatal,
                           !.type = data.type]
    /\ UNCHANGED hlsConfig
    /\ UNCHANGED <<now, ticks, shieldVars, adVars, detailVars, siteVars>>

\* A timer runs
TimerFires ==
    /\ player.effect = "done"
    /\ \E j \in 1 .. Len(player.timers) :
          /\ CanFire(player, j)
          /\ player' = TimerFired(player, j)
          /\ lastEv' = [Observed("timer", player, player.timers[j].inst)
                           EXCEPT !.type = player.timers[j].kind]
    /\ UNCHANGED hlsConfig
    /\ UNCHANGED <<now, ticks, shieldVars, adVars, detailVars, siteVars>>

\* The user picks a quality in the settings menu: Auto or a level
UserSelectsQuality ==
    /\ player.effect = "done"
    /\ VideoMounted(player)
    /\ \E level \in {-1} \cup {l.index : l \in
                                  {player.hlsLevels[i] : i \in
                                      DOMAIN player.hlsLevels}} :
          /\ player' = SelectQuality(player, level)
          /\ lastEv' = [Observed("selectQuality", player, player.hlsRef)
                           EXCEPT !.level = level]
    /\ UNCHANGED hlsConfig
    /\ UNCHANGED <<now, ticks, shieldVars, adVars, detailVars, siteVars>>

\* togglePlay: video.paused ? video.play() : video.pause()
TogglePlay ==
    /\ player.effect = "done"
    /\ VideoMounted(player)
    /\ player' = [player EXCEPT !.paused = ~@]
    /\ lastEv' = NoEvent
    /\ UNCHANGED hlsConfig
    /\ UNCHANGED <<now, ticks, shieldVars, adVars, detailVars, siteVars>>

\* Native HLS: the <video> element emits loadedmetadata or error
NativeEvent ==
    /\ player.effect = "done"
    /\ VideoMounted(player)
    /\ player.nativeListeners > 0
    /\ \/ \E plays \in BOOLEAN :
             player' = [player EXCEPT !.isLoading = FALSE,
                                      !.paused = IF plays THEN FALSE ELSE @]
       \/ player' = ShowError(player, "Failed to load video")
    /\ lastEv' = NoEvent
    /\ UNCHANGED hlsConfig
    /\ UNCHANGED <<now, ticks, shieldVars, adVars, detailVars, siteVars>>

\* The Retry button of the error view: window.location.reload()
Reload ==
    /\ player.error # Null
    /\ player' = NewPlayer(player.src)
    /\ lastEv' = NoEvent
    /\ UNCHANGED hlsConfig
    /\ UNCHANGED <<now, ticks, shieldVars, adVars, detailVars, siteVars>>

\* The session and its failures: what the engine and the <video> element
\* report, the timers, the user's play/pause and Retry
PlayerNext ==
    \/ RunEffect
    \/ SrcChanges
    \/ HlsError
    \/ TimerFires
    \/ TogglePlay
    \/ NativeEvent
    \/ Reload

PlayerSpec == PlayerInit /\ [][PlayerNext]_vars

\* The session and its quality levels: manifests, the settings menu, the
\* timers
QualityNext ==
    \/ RunEffect
    \/ SrcChanges
    \/ ManifestParsed
    \/ TimerFires
    \/ UserSelectsQuality

QualitySpec == PlayerInit /\ [][QualityNext]_vars

----------------------------------------------------------------------------
(* The detail page alone: the user, the backend, the clock *)

DetailInit ==
    /\ now = Epoch
    /\ config = CreateClickShield(FALSE)
    /\ state = NewClickShieldState(Epoch)
    /\ ret = NoRet
    /\ ticks = 0
    /\ adConfig = MergedConfig("part_008", "extreme")
    /\ adState = NewAdBlockerState
    /\ opened = NoOpen
    /\ attempts = NoAttempts
    /\ nav = NoNav
    /\ monitor = NewMonitor(0)
    /\ hlsConfig = HlsPlayerConfig("HLSPlayer", "hls.js")
    /\ player = NewPlayer("")
    /\ lastEv = NoEvent
    /\ \E autoplay \in BOOLEAN : detail = NewDetail(autoplay)
    /\ lastCall = NoCall
    /\ page = NewPage
    /\ win = NewWindow
    /\ backend = NewBackend
    /\ storage = NewStorage

\* The steps of the page leave the rest alone
DetailFrame == UNCHANGED <<ticks, shieldVars, adVars, playerVars, siteVars>>

\* fetchMovie got the details: setMovie(data), handlePlay() with autoplay,
\* setLoading(false)
MovieLoaded ==
    /\ detail.loading
    /\ detail' = AutoplayEffect([detail EXCEPT !.movie = TRUE,
                                               !.loading = FALSE], now)
    /\ lastCall' = NoCall
    /\ UNCHANGED now
    /\ DetailFrame

\* fetchMovie failed
MovieFails ==
    /\ detail.loading
    /\ detail' = [detail EXCEPT !.error = "Failed to fetch movie details.",
                                !.loading = FALSE]
    /\ lastCall' = NoCall
    /\ UNCHANGED now
    /\ DetailFrame

\* handlePlay is called now
HandlePlay ==
    /\ detail.started < MaxCalls
    /\ detail' = PlayStarted(detail, now)
    /\ lastCall' = NoCall
    /\ UNCHANGED now
    /\ DetailFrame

\* The Play button of the hero section
ClickPlay ==
    /\ PageShown(detail) /\ ~detail.isPlaying
    /\ HandlePlay

\* The Retry button of the stream error
ClickRetry ==
    /\ StreamErrorShown(detail)
    /\ HandlePlay

\* The Cancel button of the stream error, the player's onBack
ClickCancel ==
    /\ StreamErrorShown(detail) \/ HLSPlayerMounted(detail)
    /\ detail.autoplay => detail.started < MaxCalls
    /\ detail' = AutoplayEffect([detail EXCEPT !.isPlaying = FALSE], now)
    /\ lastCall' = NoCall
    /\ UNCHANGED now
    /\ DetailFrame

\* The close button over the player area
ClickClose ==
    /\ PageShown(detail) /\ detail.isPlaying
    /\ detail.autoplay => detail.started < MaxCalls
    /\ detail' = AutoplayEffect([detail EXCEPT !.isPlaying = FALSE,
                                               !.hlsUrl = "",
                                               !.streamError = Null], now)
    /\ lastCall' = NoCall
    /\ UNCHANGED now
    /\ DetailFrame

\* Time passes; an armed abort timer runs when it is due
DetailAdvance ==
    /\ ticks < MaxTicks
    /\ \E d \in {ExtractTimeout \div 2, ExtractTimeout} :
          /\ now' = now + d
          /\ \A i \in DOMAIN detail.calls :
                TimerArmed(detail.calls[i]) =>
                    now' - detail.calls[i].startedAt <= ExtractTimeout
    /\ ticks' = ticks + 1
    /\ lastCall' = NoCall
    /\ UNCHANGED <<detail, shieldVars, adVars, playerVars, siteVars>>

\* The response headers of a pending fetch arrive
FetchResolves ==
    /\ \E i \in DOMAIN detail.calls, ok \in BOOLEAN :
          /\ detail.calls[i].phase = "fetching"
          /\ detail' = [detail EXCEPT
                           !.calls[i] = HeadersReceived(@, ok)]
    /\ lastCall' = NoCall
    /\ UNCHANGED now
    /\ DetailFrame

\* Call i resolves to response: handlePlay continues after its await
Settle(i, response) ==
    /\ detail' = StreamResolved([detail EXCEPT !.calls = RemoveAt(@, i)],
                                response)
    /\ lastCall' = Settled(detail.calls[i], now, response, detail)
    /\ UNCHANGED now
    /\ DetailFrame

\* A pending fetch is rejected by the network
FetchFails ==
    \E i \in DOMAIN detail.calls :
        /\ detail.calls[i].phase = "fetching"
        /\ Settle(i, FetchRejected(FALSE))

\* The abort timer of a call runs: controller.abort()
AbortTimerFires ==
    \E i \in DOMAIN detail.calls :
        /\ TimerArmed(detail.calls[i])
        /\ now - detail.calls[i].startedAt >= ExtractTimeout
        /\ Settle(i, FetchRejected(TRUE))

\* The body of a response has been read
BodyArrives ==
    \E i \in DOMAIN detail.calls, body \in JsonBodies, parsed \in BOOLEAN :
        /\ detail.calls[i].phase = "reading"
        /\ Settle(i, BodyRead(detail.calls[i], body, parsed))

DetailNext ==
    \/ MovieLoaded
    \/ MovieFails
    \/ ClickPlay
    \/ ClickRetry
    \/ ClickCancel
    \/ ClickClose
    \/ DetailAdvance
    \/ FetchResolves
    \/ FetchFails
    \/ AbortTimerFires
    \/ BodyArrives

DetailSpec == DetailInit /\ [][DetailNext]_vars

----------------------------------------------------------------------------
(* Properties of the click shield *)

IsDecision == ret.op \in {"handleClick", "shouldBlockClick"}

\* C1: with the shield enabled, after the grace periods and with no popup
\* detection, a user who keeps clicking, each click at least
\* minTimeBetweenClicks after the previous one, gets a click allowed: once
\* the user of UserSpec has made MaxClicks clicks, one of them was allowed.
C1_PatientUserGetsThrough ==
    (state.blockedClicks + state.allowedClicks >= MaxClicks)
        => state.allowedClicks > 0

C3_IframeGraceBlocks ==
    (IsDecision
       /\ ret.at - state.iframeLoadTime < Timings(config).iframeLoadGracePeriod)
        => ret.shouldBlock

\* A click after the page load grace period, within the grace period of a
\* later onIframeLoad()
C3_Witness ==
    /\ ret.op = "handleClick"
    /\ state.iframeLoadTime > state.pageLoadTime
    /\ ret.rule = 2
    /\ ret.shouldBlock

C7_SpacingRuleOnlyForCloseClicks ==
    (ret.op = "handleClick" /\ ret.rule = 4)
        => (ret.prevClickTime > 0
            /\ ret.at - ret.prevClickTime < Timings(config).minTimeBetweenClicks)

----------------------------------------------------------------------------
(* Properties of the wrapped window.open *)

\* The last step was a call of the wrapped window.open
OpenCalled == opened.window.from # "none"

\* The block-list of the specification: empty or about:blank, a suspicious
\* pattern, blob: or data:
BlockListed(url) == UrlFacts[url].suspicious

\* The block-list the wrapper running applies
BlockListedByWrapper(cfg, url) ==
    IF cfg.rev = "part_008" THEN UrlFacts[url].suspicious
    ELSE url = "" \/ UrlFacts[url].adPattern

AllowListed(url) == UrlFacts[url].whitelisted

\* The call came less than suspiciousWindow ms after the last recorded gesture
InSuspiciousWindow ==
    /\ adConfig.rev = "part_008"
    /\ adState.userHasInteracted
    /\ opened.at - adState.lastInteractionTime
          < AdTiming(adConfig).suspiciousWindow

OpenBlocked ==
    /\ opened.window = FakeWindow
    /\ opened.window.closed
    /\ adState.blockedCount = opened.blockedBefore + 1

OpenForwarded ==
    /\ opened.window =
          OriginalWindowOpen(opened.url, opened.target, opened.features)
    /\ adState.blockedCount = opened.blockedBefore

\* C8: every call of the wrapped window.open with a block-listed destination
\* (empty or about:blank, a suspicious pattern, blob: or data:) or with a
\* destination that violates the timing window returns the fake window
\* (closed = true), never the original window.open's result, and increases
\* blockedCount by exactly one.
C8_BlockListedOpenIsInert ==
    (/\ OpenCalled
     /\ \/ BlockListed(opened.url)
        \/ InSuspiciousWindow /\ ~AllowListed(opened.url))
    => OpenBlocked

\* C9 as stated: every call of the wrapped window.open whose destination host
\* is on the allow-list is forwarded to the original window.open with
\* unchanged arguments and its result returned, blockedCount unchanged.
C9_AllowListedForwarded ==
    (OpenCalled /\ AllowListed(opened.url)) => OpenForwarded

\* C9: every call of the wrapped window.open whose destination host is on the
\* allow-list and whose URL matches no entry of the wrapper's block-list is
\* forwarded to the original window.open with unchanged arguments and its
\* result returned, blockedCount unchanged -- also inside the timing window.
C9_AllowListedCleanForwarded ==
    (/\ OpenCalled
     /\ AllowListed(opened.url)
     /\ ~BlockListedByWrapper(adConfig, opened.url))
    => OpenForwarded

\* An allow-listed subdomain in upper case, opened right after a click with
\* target and features, reaches the original window.open
C9_Witness ==
    /\ OpenCalled
    /\ InSuspiciousWindow
    /\ opened.url = "https://cdn.VidSrc.to/e/1"
    /\ opened.window.from = "originalWindowOpen"
    /\ opened.window.args = <<"https://cdn.VidSrc.to/e/1", "_self", "">>
    /\ opened.blockedBefore > 0
    /\ adState.blockedCount = opened.blockedBefore

\* C10: a window.open call made less than suspiciousWindow ms after the last
\* recorded user gesture is blocked unless its destination host is on the
\* allow-list, even when the destination matches no block-list pattern and
\* even when it is on the page's own host.
C10_TimingWindowBlocks ==
    (/\ OpenCalled
     /\ InSuspiciousWindow
     /\ ~AllowListed(opened.url))
    => OpenBlocked /\ opened.rule # 0

\* A same-host destination that matches no pattern, opened one millisecond
\* short of the window after a click, gets the fake window by the timing rule
C10_Witness ==
    /\ OpenCalled
    /\ InSuspiciousWindow
    /\ opened.at - adState.lastInteractionTime
          = AdTiming(adConfig).suspiciousWindow - 1
    /\ UrlFacts[opened.url].hostname = CurrentHost
    /\ ~BlockListed(opened.url)
    /\ opened.rule = 3
    /\ OpenBlocked

----------------------------------------------------------------------------
(* Properties of the playback session *)

\* The revisions with a retry budget
Budgeted == hlsConfig.rev \in {"HLSPlayer", "part_004"}

\* The ERROR handler ran last, for a fatal error of this type
FatalHandled(type) ==
    /\ lastEv.op = "error"
    /\ lastEv.fatal
    /\ lastEv.type = type

\* The engine the last handler ran for
LastEngine == player.engines[lastEv.inst]

\* C11: with a retry budget (HLSPlayer 4, part_004 6), every fatal network
\* error below the budget schedules one reload and leaves the error as it was,
\* the fatal network error that finds the budget used up sets the error and
\* schedules nothing, and the retries never exceed MAX_RETRIES.
C11_RetryBudget ==
    Budgeted =>
        /\ \A i \in DOMAIN player.engines :
              player.engines[i].networkRetries <= hlsConfig.MAX_RETRIES
        /\ FatalHandled(NetworkError) =>
              IF lastEv.retriesBefore < hlsConfig.MAX_RETRIES
              THEN /\ LastEngine.networkRetries = lastEv.retriesBefore + 1
                   /\ Len(player.timers) = lastEv.timersBefore + 1
                   /\ player.timers[Len(player.timers)].kind = "startLoad"
                   /\ player.error = lastEv.errorBefore
              ELSE /\ player.error = NetworkMessage(hlsConfig)
                   /\ LastEngine.networkRetries = hlsConfig.MAX_RETRIES
                   /\ Len(player.timers) = lastEv.timersBefore

\* part_004, a stream that only fails with fatal network errors: six reloads
\* ran, the seventh error sets the error
C11_Witness ==
    /\ hlsConfig.rev = "part_004"
    /\ FatalHandled(NetworkError)
    /\ lastEv.errorBefore = Null
    /\ lastEv.retriesBefore = 6
    /\ LastEngine.recoveryCalls = 6
    /\ player.timers = <<>>
    /\ player.error = "Network error - please check connection and retry"

\* C12: whatever fatal errors the stream keeps producing, the session is in
\* the Error state once it has made a bounded number of recovery attempts
\* (startLoad and recoverMediaError calls): here the retry budget plus
\* MaxRecoveries.
C12_RecoveryBounded ==
    \A i \in DOMAIN player.engines :
        \/ player.engines[i].recoveryCalls
              < hlsConfig.MAX_RETRIES + MaxRecoveries
        \/ player.error # Null

\* The retries (delayed startLoad calls) of engine i that are scheduled and
\* have not run
PendingRetries(i) ==
    {j \in DOMAIN player.timers :
        player.timers[j].kind = "startLoad" /\ player.timers[j].inst = i}

\* C13: recovery actions for one fault class never overlap: at every moment
\* at most one retry (delayed startLoad) of an engine is scheduled and not yet
\* run, also when a fatal network error arrives in between.
C13_NoOverlappingRetries ==
    \A i \in DOMAIN player.engines : Cardinality(PendingRetries(i)) <= 1

\* C14: at every moment at most one engine instance is attached to the media
\* element; every instance but the newest is destroyed and detached, and
\* hlsRef, when set, names the attached one.
C14_OneEngineAttached ==
    /\ Cardinality(AttachedEngines(player)) <= 1
    /\ \A i \in DOMAIN player.engines :
          i < Len(player.engines) =>
              player.engines[i].destroyed /\ ~player.engines[i].attached
    /\ player.hlsRef # 0 =>
          /\ player.hlsRef = Len(player.engines)
          /\ AttachedEngines(player) = {player.hlsRef}

\* The source changed while an engine was attached: the first engine is
\* destroyed and detached, the second is attached
C14_Witness ==
    /\ Len(player.engines) = 2
    /\ player.src # FirstSource
    /\ player.engines[1].destroyed
    /\ ~player.engines[1].attached
    /\ player.engines[2].attached
    /\ player.hlsRef = 2

\* C15: Error is terminal: a handler or timer callback that finds the error
\* set performs no load or recovery action (no startLoad, no
\* recoverMediaError, no retry scheduled) and leaves the error set.
C15_ErrorIsTerminal ==
    (/\ lastEv.op \in {"error", "timer"}
     /\ lastEv.errorBefore # Null)
    => /\ LastEngine.recoveryCalls = lastEv.callsBefore
       /\ Len(player.timers) <= lastEv.timersBefore
       /\ player.error # Null

\* C16: every fatal engine error that is neither network-class nor
\* media-class moves the session to the Error state with a non-empty reason:
\* at the latest when the timer its handler set has run, the error is set.
C16_OtherFatalSetsError ==
    (lastEv.op = "timer" /\ lastEv.type = "setError")
    => player.error # Null /\ player.error # ""

\* C17: a non-fatal engine error (buffer stall, or any other error with
\* fatal = false) never sets the error and never consumes retry budget: the
\* handler leaves error, networkRetries, the engine and the timers as they
\* were.
C17_NonFatalSwallowed ==
    (lastEv.op = "error" /\ ~lastEv.fatal)
    => /\ player.error = lastEv.errorBefore
       /\ LastEngine.networkRetries = lastEv.retriesBefore
       /\ LastEngine.recoveryCalls = lastEv.callsBefore
       /\ Len(player.timers) = lastEv.timersBefore

\* A non-fatal network error arrives in a session that has used part of its
\* budget and shows no error
C17_Witness ==
    /\ Budgeted
    /\ lastEv.op = "error"
    /\ ~lastEv.fatal
    /\ lastEv.type = NetworkError
    /\ lastEv.retriesBefore = 2
    /\ LastEngine.networkRetries = 2
    /\ player.error = Null

\* The engine the player holds is pinned to the level the user picked
PinnedByUser(p) ==
    /\ p.hlsRef # 0
    /\ p.currentQuality >= 0
    /\ p.engines[p.hlsRef].manualLevel = p.currentQuality

\* C20: after selectQuality(i) with i >= 0 the engine stays pinned to level i
\* (adaptive bitrate selection off) until the next selectQuality call: no
\* other step of the session changes the level of a pinned engine.
C20_PinnedUntilNextSelect ==
    [][(/\ PinnedByUser(player)
        /\ player'.hlsRef = player.hlsRef
        /\ lastEv'.op # "selectQuality")
       => player'.engines[player.hlsRef].manualLevel = player.currentQuality]_vars

----------------------------------------------------------------------------
(* Properties of the detail page and of the stream service *)

\* The response cannot be played: success false, no manifest URL, or a
\* manifest URL on which getProxiedUrl throws
Unplayable(response) ==
    ~response.success \/ response.m3u8Url = "" \/ ~response.m3u8IsString

ResolutionFailed == lastCall.op = "settled" /\ Unplayable(lastCall.response)

\* C18 as stated: when the stream resolution returns a non-success result or
\* throws, the detail page shows the error with a non-empty reason right away
\* and the HLS player is not mounted.
C18_FailureShowsError ==
    ResolutionFailed =>
        StreamErrorShown(detail) /\ ~HLSPlayerMounted(detail)

\* C18: when the stream resolution returns a non-success result or throws,
\* the page holds a non-empty error reason, has stopped the spinner and does
\* not mount the HLS player; it shows the error if the playback view was
\* still open when the result arrived.
C18_FailureShowsErrorWhileOpen ==
    ResolutionFailed =>
        /\ Truthy(detail.streamError)
        /\ ~detail.streamLoading
        /\ ~HLSPlayerMounted(detail)
        /\ lastCall.wasPlaying => StreamErrorShown(detail)

\* A result with success true and no manifest URL arrived at the open view
\* of a page that played a stream before
C18_Witness ==
    /\ ResolutionFailed
    /\ lastCall.response.success
    /\ lastCall.wasPlaying
    /\ detail.hlsUrl # ""
    /\ StreamErrorShown(detail)

\* C19: every call to getMappleTVStream settles within 120 seconds of its
\* start: no call is pending later than that, and none settles later.
C19_SettlesWithinBound ==
    /\ \A i \in DOMAIN detail.calls :
          now - detail.calls[i].startedAt <= ExtractTimeout
    /\ lastCall.op = "settled" =>
          lastCall.at - lastCall.startedAt <= ExtractTimeout

----------------------------------------------------------------------------
(* Properties of the click shield's session state *)

\* C23: right after onIframeLoad() totalClicks is 0, trustLevel is 0 and
\* iframeLoadTime is the time of the call.
C23_IframeLoadResets ==
    ret.op = "onIframeLoad"
        => /\ state.totalClicks = 0
           /\ state.trustLevel = 0
           /\ state.iframeLoadTime = now

\* C24: once onPopupDetected has set paranoiaUntil, the call that follows,
\* whichever of onPopupDetected, enterParanoia, handleClick and onIframeLoad
\* it is, does not lower it.
C24_ParanoiaNeverDecreases ==
    [][ret.op = "onPopupDetected"
          => state'.paranoiaUntil >= state.paranoiaUntil]_vars

\* C25: a handleClick call that is blocked leaves lastClickTime as it was
\* before the call.
C25_BlockedKeepsLastClickTime ==
    (ret.op = "handleClick" /\ ret.shouldBlock)
        => state.lastClickTime = ret.prevClickTime

\* No time or count rule applies to a decision made at time t
NoTimeOrCountRule(cfg, st, t) ==
    /\ t - st.pageLoadTime >= Timings(cfg).pageLoadGracePeriod
    /\ t - st.iframeLoadTime >= Timings(cfg).iframeLoadGracePeriod
    /\ st.totalClicks >= Timings(cfg).firstClicksToBlock
    /\ st.lastClickTime = 0
          \/ t - st.lastClickTime >= Timings(cfg).minTimeBetweenClicks
    /\ st.lastPopupDetectedTime = 0
          \/ t - st.lastPopupDetectedTime >= Timings(cfg).afterPopupReblock

\* C26: when no time or count rule applies, shouldBlockClick allows at a
\* trustLevel at or above maxTrustForBlocking and blocks at a trustLevel
\* below 15, whatever Math.random() returns.
C26_ExtremesDeterministic ==
    (ret.op = "shouldBlockClick" /\ NoTimeOrCountRule(config, state, ret.at))
        => /\ state.trustLevel >= Timings(config).maxTrustForBlocking
                => ~ret.shouldBlock
           /\ state.trustLevel < 15 => ret.shouldBlock

\* A decision at exactly the ceiling, after the re-block window of a popup,
\* is an allow
C26_Witness ==
    /\ ret.op = "shouldBlockClick"
    /\ NoTimeOrCountRule(config, state, ret.at)
    /\ state.lastPopupDetectedTime > 0
    /\ state.trustLevel = Timings(config).maxTrustForBlocking
    /\ ~ret.shouldBlock

----------------------------------------------------------------------------
(* A burst of popup attempts right after the surface loaded.  The page that  *)
(* starts createAdBlocker is not in the repository's sources; its onAdBlocked *)
(* option is wired as the specification describes the event: a detection     *)
(* resets the trust gate, that is, calls ClickShield.onPopupDetected().       *)

\* The shield after the onAdBlocked() calls of one window.open call
AdBlockedObserved(cfg, st, t, signals) ==
    IF signals > 0 THEN PopupDetected(cfg, st, t) ELSE st

\* Popup attempts of one burst
MaxAttempts == 3

BurstInit ==
    /\ now = Epoch
    /\ \E m \in BOOLEAN : config = CreateClickShield(m)
    /\ state = NewClickShieldState(Epoch)
    /\ ret = NoRet
    /\ ticks = 0
    /\ \/ \E a \in {"low", "medium", "high", "extreme"} :
             adConfig = MergedConfig("part_008", a)
       \/ adConfig = MergedConfig("adBlocker.ts", "high")
    /\ adState = NewAdBlockerState
    /\ opened = NoOpen
    /\ attempts = NoAttempts
    /\ nav = NoNav
    /\ monitor = NewMonitor(0)
    /\ hlsConfig = HlsPlayerConfig("HLSPlayer", "hls.js")
    /\ player = NewPlayer("")
    /\ lastEv = NoEvent
    /\ detail = NewDetail(FALSE)
    /\ lastCall = NoCall
    /\ page = NewPage
    /\ win = NewWindow
    /\ backend = NewBackend
    /\ storage = NewStorage

\* Time passes between two attempts
BurstAdvance ==
    /\ ticks < MaxTicks
    /\ \E d \in {1, 1000} : now' = now + d
    /\ ticks' = ticks + 1
    /\ opened' = NoOpen
    /\ UNCHANGED <<adConfig, adState, attempts, nav, monitor>>
    /\ UNCHANGED <<shieldVars, playerVars, detailVars, siteVars>>

\* An ad script calls window.open with a block-listed URL
PopupAttempt ==
    /\ attempts.listed < MaxAttempts
    /\ \E call \in OpenCalls :
          LET signals == AdBlockedSignals(adConfig, adState, now, call[1]) IN
          /\ UrlFacts[call[1]].suspicious
          /\ adState' = WindowOpened(adConfig, adState, now, call[1])
          /\ opened' = [rule |-> WrapperRule(adConfig, adState, now, call[1]),
                        url |-> call[1],
                        target |-> call[2],
                        features |-> call[3],
                        window |-> WindowOpenResult(adConfig, adState, now,
                                                    call[1], call[2], call[3]),
                        blockedBefore |-> adState.blockedCount,
                        signals |-> signals,
                        at |-> now]
          /\ attempts' = [listed |-> attempts.listed + 1,
                          signals |-> attempts.signals + signals]
          /\ state' = AdBlockedObserved(config, state, now, signals)
    /\ UNCHANGED <<now, ticks, adConfig, config, ret, nav, monitor>>
    /\ UNCHANGED <<playerVars, detailVars, siteVars>>

BurstNext ==
    \/ BurstAdvance
    \/ PopupAttempt

BurstSpec == BurstInit /\ [][BurstNext]_vars

\* C27: three window.open calls with block-listed URLs within 2 seconds of
\* the surface load leave blockedCount at exactly 3, each of them has raised
\* the popup-detected signal, and the shield's trustLevel is 0.
C27_BurstOfThree ==
    (attempts.listed = 3 /\ now - state.iframeLoadTime <= 2000)
        => /\ adState.blockedCount = 3
           /\ attempts.signals = 3
           /\ state.trustLevel = 0

----------------------------------------------------------------------------
(* createAdBlocker of adBlocker.ts: the interceptors of navigation requests *)

\* className and id of the links of the page
LinkClasses == {"", "nav-link", "promo-card"}

\* suspiciousPatterns tested on `${className} ${id}`.toLowerCase(), once per
\* class
ClassFacts == [c \in LinkClasses |-> MatchesNavigationPattern(c \o " ")]

NoElement == [present |-> FALSE, className |-> ""]
LinkElement(className) == [present |-> TRUE, className |-> className]

\* allowedDomains.some(domain => targetHost === domain ||
\*                               targetHost.endsWith('.' + domain))
IsAllowedHost(targetHost) ==
    \E domain \in {"vidsrc.cc", "vidsrc.to", "vidsrc.me", CurrentHost} :
        targetHost = domain \/ EndsWith(targetHost, "." \o domain)

\* isBlockedNavigation(url, element)
IsBlockedNavigation(url, element) ==
    \/ UrlFacts[url].navPattern
    \/ element.present /\ ClassFacts[element.className]
    \/ UrlFacts[url].hostname = InvalidURL
    \/ /\ ~IsAllowedHost(UrlFacts[url].hostname)
       /\ UrlFacts[url].hostname # CurrentHost

\* handleClick(event) of adBlocker.ts on a link: is the click cancelled?
LinkClickBlocked(link) ==
    \/ /\ link.target \in {"_blank", "_new"}
       /\ IsBlockedNavigation(link.href, LinkElement(link.className))
    \/ /\ link.href # ""
       /\ \/ StartsWith(link.href, "javascript:")
          \/ IsBlockedNavigation(link.href, LinkElement(link.className))

\* The links the user clicks
NavLinks ==
    {[href |-> u, target |-> t, className |-> c] :
        u \in NavUrls, t \in {"", "_blank"}, c \in LinkClasses}

\* state.blockedCount++ of the branch that blocks
Counted(st, blocked) ==
    [st EXCEPT !.blockedCount = IF blocked THEN @ + 1 ELSE @]

\* What the interceptor did with the request
Intercepted(op, url, sameTab, blocked, st) ==
    [op |-> op, url |-> url, sameTab |-> sameTab, blocked |-> blocked,
     blockedBefore |-> st.blockedCount]

NavFrame ==
    /\ UNCHANGED <<now, ticks, adConfig, opened, attempts, monitor>>
    /\ UNCHANGED <<shieldVars, playerVars, detailVars, siteVars>>

NavInit ==
    /\ now = Epoch
    /\ config = CreateClickShield(FALSE)
    /\ state = NewClickShieldState(Epoch)
    /\ ret = NoRet
    /\ ticks = 0
    /\ adConfig = MergedConfig("adBlocker.ts", "high")
    /\ adState = NewAdBlockerState
    /\ opened = NoOpen
    /\ attempts = NoAttempts
    /\ nav = NoNav
    /\ monitor = NewMonitor(0)
    /\ hlsConfig = HlsPlayerConfig("HLSPlayer", "hls.js")
    /\ player = NewPlayer("")
    /\ lastEv = NoEvent
    /\ detail = NewDetail(FALSE)
    /\ lastCall = NoCall
    /\ page = NewPage
    /\ win = NewWindow
    /\ backend = NewBackend
    /\ storage = NewStorage

\* location.href = value
LocationHrefSet ==
    /\ adState.blockedCount < MaxBlocked
    /\ \E value \in NavUrls :
          LET blocked == IsBlockedNavigation(value, NoElement) IN
          /\ adState' = Counted(adState, blocked)
          /\ nav' = Intercepted("location.href", value, TRUE, blocked, adState)
    /\ NavFrame

\* location.pathname / .search / .hash = value: the setter tests
\* window.location.origin + value
LocationPartSet ==
    /\ adState.blockedCount < MaxBlocked
    /\ \E prop \in DOMAIN LocationValues : \E value \in LocationValues[prop] :
          LET newUrl == Origin \o value
              blocked == IsBlockedNavigation(newUrl, NoElement) IN
          /\ adState' = Counted(adState, blocked)
          /\ nav' = Intercepted("location." \o prop, newUrl, TRUE, blocked,
                                adState)
    /\ NavFrame

\* location.assign(url), location.replace(url)
LocationCall ==
    /\ adState.blockedCount < MaxBlocked
    /\ \E op \in {"location.assign", "location.replace"}, url \in NavUrls :
          LET blocked == IsBlockedNavigation(url, NoElement) IN
          /\ adState' = Counted(adState, blocked)
          /\ nav' = Intercepted(op, url, TRUE, blocked, adState)
    /\ NavFrame

\* A click on a link reaches the capture-phase listener
LinkClick ==
    /\ adState.blockedCount < MaxBlocked
    /\ \E link \in NavLinks :
          LET blocked == LinkClickBlocked(link) IN
          /\ adState' = Counted(adState, blocked)
          /\ nav' = Intercepted("click", link.href, link.target = "", blocked,
                                adState)
    /\ NavFrame

\* window.open(url, '_self')
SelfOpen ==
    /\ adState.blockedCount < MaxBlocked
    /\ \E url \in NavUrls :
          LET blocked == WrapperRule(adConfig, adState, now, url) # 0 IN
          /\ adState' = Counted(adState, blocked)
          /\ nav' = Intercepted("window.open", url, TRUE, blocked, adState)
    /\ NavFrame

NavNext ==
    \/ LocationHrefSet
    \/ LocationPartSet
    \/ LocationCall
    \/ LinkClick
    \/ SelfOpen

NavSpec == NavInit /\ [][NavNext]_vars

\* The destination is on the origin of the page
SameOrigin(url) ==
    /\ UrlFacts[url].hostname = CurrentHost
    /\ StartsWith(url, "/") \/ StartsWith(url, Origin)

\* C28: no interceptor blocks a same-origin navigation in the same tab,
\* whatever its path or query.
C28_SameOriginNeverBlocked ==
    (nav.op # "none" /\ nav.sameTab /\ SameOrigin(nav.url)) => ~nav.blocked

----------------------------------------------------------------------------
(* createAdBlocker of adBlocker.ts: the window count monitor *)

\* Largest window.length explored
MaxWindows == 3

\* One run of the interval callback: the monitor afterwards
Polled(m, st) ==
    [m EXCEPT !.seen = m.length,
              !.seenBefore = m.seen,
              !.polled = TRUE,
              !.raised = m.length > m.initialWindowCount,
              !.blockedBefore = st.blockedCount,
              !.initialWindowCount =
                  IF m.length > m.initialWindowCount THEN m.length ELSE @]

MonitorInit ==
    /\ now = Epoch
    /\ config = CreateClickShield(FALSE)
    /\ state = NewClickShieldState(Epoch)
    /\ ret = NoRet
    /\ ticks = 0
    /\ adConfig = MergedConfig("adBlocker.ts", "high")
    /\ adState = NewAdBlockerState
    /\ opened = NoOpen
    /\ attempts = NoAttempts
    /\ nav = NoNav
    /\ \E length \in 0 .. MaxWindows : monitor = NewMonitor(length)
    /\ hlsConfig = HlsPlayerConfig("HLSPlayer", "hls.js")
    /\ player = NewPlayer("")
    /\ lastEv = NoEvent
    /\ detail = NewDetail(FALSE)
    /\ lastCall = NoCall
    /\ page = NewPage
    /\ win = NewWindow
    /\ backend = NewBackend
    /\ storage = NewStorage

\* Browsing contexts are opened or closed between two polls
WindowsChange ==
    /\ \E length \in 0 .. MaxWindows :
          /\ length # monitor.length
          /\ monitor' = [monitor EXCEPT !.length = length, !.polled = FALSE,
                                        !.raised = FALSE]
    /\ UNCHANGED <<now, ticks, adConfig, adState, opened, attempts, nav>>
    /\ UNCHANGED <<shieldVars, playerVars, detailVars, siteVars>>

\* The interval callback of startWindowMonitor runs
WindowCheck ==
    /\ adState.blockedCount < MaxBlocked
    /\ monitor' = Polled(monitor, adState)
    /\ adState' = Counted(adState, Polled(monitor, adState).raised)
    /\ UNCHANGED <<now, ticks, adConfig, opened, attempts, nav>>
    /\ UNCHANGED <<shieldVars, playerVars, detailVars, siteVars>>

MonitorNext ==
    \/ WindowsChange
    \/ WindowCheck

MonitorSpec == MonitorInit /\ [][MonitorNext]_vars

\* The last step was a poll that raised the signal once
SignalRaised ==
    /\ monitor.raised
    /\ adState.blockedCount = monitor.blockedBefore + 1

\* C29: a poll that sees more browsing contexts than the poll before it
\* raises the popup-detected signal: blockedCount goes up by one and
\* onAdBlocked is called.
C29_GrowthSinceLastPollSignals ==
    (monitor.polled /\ monitor.seenBefore >= 0
        /\ monitor.seen > monitor.seenBefore)
    => SignalRaised

----------------------------------------------------------------------------
(* Properties of overlapping stream requests *)

\* The call that settled last was not the newest request of the page
StaleSettled == lastCall.op = "settled" /\ lastCall.id < detail.started

\* C30: a response of a request that is not the newest one, arriving while
\* the player is mounted on the result of a newer request, never replaces it
\* or restarts the player: the player stays mounted on the same manifest URL.
C30_StaleKeepsPlayer ==
    (/\ StaleSettled
     /\ lastCall.wasPlaying
     /\ lastCall.hlsUrlBefore # ""
     /\ ~lastCall.streamLoadingBefore
     /\ ~Truthy(lastCall.streamErrorBefore))
    => HLSPlayerMounted(detail) /\ detail.hlsUrl = lastCall.hlsUrlBefore

----------------------------------------------------------------------------
(* Seeking: the <video> element, its events, skip and handleSeek *)

MediaDuration == 30
AdvanceStep == 10
PosDen == 3
MaxSeeks == 2
MaxEvents == 2

Clamp(x, lo, hi) == Max(lo, Min(hi, x))

\* hls.startLoad(startPosition)
StartLoadAt(p, inst, startPosition) ==
    [p EXCEPT !.engines[inst].recoveryCalls = @ + 1,
              !.engines[inst].startPosition = startPosition]

\* video.currentTime = t. Before any media data the value only becomes the
\* default start position. Otherwise the element seeks: the seek in progress,
\* if there is one, is abandoned; seeking becomes true, a seeking event is
\* queued, the position inside the media becomes the current position at
\* once; readyState drops to HAVE_METADATA unless the data of the position is
\* buffered.
MediaSeek(v, t, isBuffered) ==
    IF v.readyState = 0 THEN v
    ELSE [v EXCEPT !.currentTime = Clamp(t, 0, v.duration),
                   !.seeking = TRUE,
                   !.readyState = IF isBuffered THEN @ ELSE 1,
                   !.events = Append(@, "seeking")]

\* Mutant: the handler leaves the displayed time to the next timeupdate
SeekTo_NoSetCurrentTime(cfg, p, newTime, isBuffered) ==
    LET q == IF cfg.rev = "HLSPlayer" /\ p.hlsRef # 0
             THEN StartLoadAt(p, p.hlsRef, newTime)
             ELSE p
    IN [q EXCEPT !.video = MediaSeek(@, newTime, isBuffered),
                 !.seeks = @ + 1,
                 !.seekTarget = newTime]

\* The end of skip and handleSeek: startLoad(newTime) on the engine of the
\* ref (current revision), video.currentTime = newTime,
\* setCurrentTime(newTime)
SeekTo(cfg, p, newTime, isBuffered) ==
    LET q == IF cfg.rev = "HLSPlayer" /\ p.hlsRef # 0
             THEN StartLoadAt(p, p.hlsRef, newTime)
             ELSE p
    IN [q EXCEPT !.video = MediaSeek(@, newTime, isBuffered),
                 !.currentTime = newTime,
                 !.seeks = @ + 1,
                 !.seekTarget = newTime]

\* newTime of skip(seconds)
SkipTime(p, seconds) == Max(0, Min(p.duration, p.video.currentTime + seconds))

\* newTime of handleSeek: pos * duration, pos the fraction k / PosDen of the
\* progress bar left of the click
ProgressTime(p, k) == (k * p.duration) \div PosDen

\* The listeners of the <video> element. The revisions before the current one
\* have no seeking flag: timeupdate always stores the position. A new duration
\* runs the keyboard effect (deps [duration]) again: its keydown listener
\* closes over the toggleSubtitles of this render.
OnVideoEvent(cfg, p, ev) ==
    IF ev = "timeupdate"
    THEN IF cfg.rev = "HLSPlayer" /\ p.seekingRef
         THEN p
         ELSE [p EXCEPT !.currentTime = p.video.currentTime]
    ELSE IF ev = "durationchange"
    THEN [p EXCEPT !.duration = p.video.duration,
                   !.keyCurrentSubtitle =
                       IF p.video.duration # p.duration
                       THEN p.currentSubtitle ELSE @,
                   !.keySubtitles =
                       IF p.video.duration # p.duration
                       THEN p.subtitles ELSE @]
    ELSE IF cfg.rev # "HLSPlayer"
    THEN p
    ELSE IF ev = "seeking"
    THEN [p EXCEPT !.seekingRef = TRUE, !.isBuffering = TRUE]
    ELSE IF ev = "seeked"
    THEN [p EXCEPT !.seekingRef = FALSE,
                   !.isBuffering = IF p.video.readyState >= 3 THEN FALSE ELSE @]
    ELSE IF ev = "playing"
    THEN [p EXCEPT !.seekingRef = FALSE, !.isBuffering = FALSE,
                   !.isLoading = FALSE]
    ELSE p

\* The session as far as seeking goes
SeekInit ==
    /\ PlayerInit
    /\ hlsConfig.support = "hls.js"
    /\ hlsConfig.rev \in {"HLSPlayer", "HLSPlayer_earlier"}
    /\ player.src = FirstSource

SeekFrame ==
    /\ lastEv' = NoEvent
    /\ UNCHANGED hlsConfig
    /\ UNCHANGED <<now, ticks, shieldVars, adVars, detailVars, siteVars>>

\* The media element has the metadata: the duration is known
LoadedMetadata ==
    /\ player.effect = "done" /\ VideoMounted(player)
    /\ player.video.readyState = 0
    /\ player' = [player EXCEPT !.video.readyState = 4,
                                !.video.duration = MediaDuration,
                                !.video.events = Append(@, "durationchange")]
    /\ SeekFrame

\* Playback moves the position on and reports it
PlaybackAdvances ==
    /\ VideoMounted(player)
    /\ ~player.paused /\ ~player.video.seeking
    /\ player.video.readyState >= 3
    /\ player.video.currentTime + AdvanceStep <= player.video.duration
    /\ Len(player.video.events) < MaxEvents
    /\ player' = [player EXCEPT !.video.currentTime = @ + AdvanceStep,
                                !.video.events = Append(@, "timeupdate")]
    /\ SeekFrame

\* Playback starts or resumes: the element reports playing
VideoPlaying ==
    /\ VideoMounted(player)
    /\ ~player.paused
    /\ player.video.readyState >= 3
    /\ Len(player.video.events) < MaxEvents
    /\ player' = [player EXCEPT !.video.events = Append(@, "playing")]
    /\ SeekFrame

\* The skip buttons, the arrow keys, the double tap: skip(-10), skip(10)
Skip ==
    /\ player.effect = "done" /\ VideoMounted(player)
    /\ player.seeks < MaxSeeks
    /\ \E seconds \in {-10, 10}, isBuffered \in BOOLEAN :
          player' = SeekTo(hlsConfig, player, SkipTime(player, seconds),
                           isBuffered)
    /\ SeekFrame

\* A click on the progress bar
HandleSeek ==
    /\ player.effect = "done" /\ VideoMounted(player)
    /\ player.seeks < MaxSeeks
    /\ \E k \in 0 .. PosDen, isBuffered \in BOOLEAN :
          player' = SeekTo(hlsConfig, player, ProgressTime(player, k),
                           isBuffered)
    /\ SeekFrame

\* The element has the data of the new position: seeking becomes false,
\* timeupdate and seeked are queued
SeekCompletes ==
    /\ VideoMounted(player)
    /\ player.video.seeking
    /\ \E readyState \in {2, 4} :
          player' = [player EXCEPT
                        !.video.seeking = FALSE,
                        !.video.readyState = Max(@, readyState),
                        !.video.events = @ \o <<"timeupdate", "seeked">>]
    /\ SeekFrame

\* The next queued event is dispatched to the listeners
VideoEvent ==
    /\ player.effect = "done" /\ VideoMounted(player)
    /\ Len(player.video.events) > 0
    /\ player' = OnVideoEvent(hlsConfig,
                              [player EXCEPT !.video.events = Tail(@)],
                              Head(player.video.events))
    /\ SeekFrame

SeekNext ==
    \/ RunEffect
    \/ TogglePlay
    \/ LoadedMetadata
    \/ PlaybackAdvances
    \/ VideoPlaying
    \/ Skip
    \/ HandleSeek
    \/ SeekCompletes
    \/ VideoEvent

\* The element finishes every seek and dispatches every queued event
SeekSpec ==
    /\ SeekInit
    /\ [][SeekNext]_vars
    /\ WF_vars(SeekCompletes)
    /\ WF_vars(VideoEvent)

\* A seek of a started session is in progress
SeekInProgress == player.video.seeking /\ player.seeks > 0

\* The step is a call of skip or handleSeek on a started session
IsSeekCall ==
    /\ player'.seeks = player.seeks + 1
    /\ player.video.readyState > 0

\* C21, the displayed time: while a seek to t on a started session is in
\* progress, the reported current time is t; no time update overwrites it.
C21_TimeIsTarget ==
    SeekInProgress
        => /\ player.currentTime = player.seekTarget
           /\ player.video.currentTime = player.seekTarget

\* C21, the session: a seek creates no engine, does not run the init effect
\* again, shows neither the loader nor an error.
C21_NoRestart ==
    [][IsSeekCall
         => /\ Len(player'.engines) = Len(player.engines)
            /\ player'.hlsRef = player.hlsRef
            /\ player'.effect = player.effect
            /\ player'.isLoading = player.isLoading
            /\ player'.error = player.error
            /\ player'.currentTime = player'.seekTarget]_vars

\* C21: after a seek to time t on a started session the reported current time
\* is t and stays t while the seek is in progress, the seeking flag is
\* cleared eventually, and the session is not restarted.
C21_SeekCorrect ==
    /\ []C21_TimeIsTarget
    /\ C21_NoRestart
    /\ (player.seekingRef ~> ~player.seekingRef)

\* A seek to a position other than the one played is in progress with the
\* seeking flag set, a time update waiting behind it
C21_Witness ==
    /\ SeekInProgress
    /\ player.seekingRef
    /\ player.seekTarget > 0
    /\ player.currentTime = player.seekTarget
    /\ Len(player.video.events) > 0

----------------------------------------------------------------------------
(* Subtitles: the load effect, toggleSubtitles, selectSubtitle *)

MaxTracks == 2
MaxLoads == 2
MaxSelections == 3

\* video.textTracks[i].mode = 'hidden' for every track
AllHidden(tracks) == [i \in DOMAIN tracks |-> "hidden"]

\* The tracks in 'showing' mode
Showing(p) == {i \in DOMAIN p.textTracks : p.textTracks[i] = "showing"}

\* The load effect for a subtitles prop of n entries: the cleanup of the run
\* before removes the <track> elements; the run returns at once for an empty
\* list, otherwise removes the existing tracks and calls loadSubtitles, which
\* is not awaited and is not cancelled by a later cleanup
SubtitlesEffect(p, n) ==
    LET q == [p EXCEPT !.subtitles = n,
                       !.textTracks = IF p.subtitles > 0 \/ n > 0
                                      THEN <<>> ELSE @,
                       !.trackSubs = IF p.subtitles > 0 \/ n > 0
                                     THEN <<>> ELSE @,
                       !.subLoads = [l \in DOMAIN @ |->
                                        [@[l] EXCEPT !.stale = TRUE]]]
    IN IF n = 0 THEN q
       ELSE [q EXCEPT !.subLoads = Append(@, [next |-> 1, n |-> n,
                                              stale |-> FALSE]),
                      !.tracksLoaded = FALSE,
                      !.userSelected = FALSE]

\* One turn of the loop of loadSubtitles call l: the fetch of the subtitle
\* file has answered. A good answer appends a <track> (default false: mode
\* 'disabled'); after the last entry every track is set to 'hidden' and the
\* call returns.
SubtitleFetched(p, l, ok) ==
    LET load == p.subLoads[l]
        appended == IF ok THEN Append(p.textTracks, "disabled")
                    ELSE p.textTracks
        sources == IF ok
                   THEN Append(p.trackSubs, [index |-> load.next - 1,
                                             stale |-> load.stale])
                   ELSE p.trackSubs
    IN IF load.next < load.n
       THEN [p EXCEPT !.textTracks = appended,
                      !.trackSubs = sources,
                      !.subLoads[l].next = @ + 1]
       ELSE [p EXCEPT !.textTracks = AllHidden(appended),
                      !.trackSubs = sources,
                      !.subLoads = RemoveAt(@, l),
                      !.tracksLoaded = TRUE,
                      !.userSelected = FALSE]

\* toggleSubtitles as a render with currentSubtitle = seen and a subtitles
\* prop of seenLength entries defined it
ToggleSubtitles(p, seen, seenLength) ==
    IF seenLength = 0 THEN p
    ELSE IF seen >= 0
    THEN [p EXCEPT !.textTracks = AllHidden(@), !.currentSubtitle = -1]
    ELSE IF Len(p.textTracks) > 0
    THEN [p EXCEPT !.textTracks[1] = "showing",
                   !.currentSubtitle = 0,
                   !.userSelected = TRUE]
    ELSE p

\* selectSubtitle(index)
SelectSubtitle(p, index) ==
    [p EXCEPT !.textTracks = [i \in DOMAIN @ |->
                                 IF i - 1 = index THEN "showing" ELSE "hidden"],
              !.currentSubtitle = index,
              !.userSelected = @ \/ (index >= 0 /\ index < Len(p.textTracks))]

\* The current player mounted with a subtitles prop; the effects of the mount
\* have run
SubsInit ==
    /\ now = Epoch
    /\ config = CreateClickShield(FALSE)
    /\ state = NewClickShieldState(Epoch)
    /\ ret = NoRet
    /\ ticks = 0
    /\ adConfig = MergedConfig("part_008", "extreme")
    /\ adState = NewAdBlockerState
    /\ opened = NoOpen
    /\ attempts = NoAttempts
    /\ nav = NoNav
    /\ monitor = NewMonitor(0)
    /\ hlsConfig = HlsPlayerConfig("HLSPlayer", "hls.js")
    /\ \E n \in 0 .. MaxTracks :
          player = [SubtitlesEffect(EffectRun(hlsConfig,
                                              NewPlayer(FirstSource)), n)
                       EXCEPT !.keySubtitles = n]
    /\ lastEv = NoEvent
    /\ detail = NewDetail(FALSE)
    /\ lastCall = NoCall
    /\ page = NewPage
    /\ win = NewWindow
    /\ backend = NewBackend
    /\ storage = NewStorage

\* The parent passes a new subtitles array
SubtitlesChange ==
    /\ VideoMounted(player)
    /\ Len(player.subLoads) < MaxLoads
    /\ \E n \in 0 .. MaxTracks : player' = SubtitlesEffect(player, n)
    /\ SeekFrame

\* The fetch of a subtitle file answers
SubtitleLoads ==
    /\ \E l \in DOMAIN player.subLoads, ok \in BOOLEAN :
          player' = SubtitleFetched(player, l, ok)
    /\ SeekFrame

\* The subtitles button of the control bar
ClickSubtitles ==
    /\ VideoMounted(player)
    /\ player.subtitles > 0
    /\ player.seeks < MaxSelections
    /\ player' = [ToggleSubtitles(player, player.currentSubtitle,
                                  player.subtitles)
                     EXCEPT !.seeks = @ + 1]
    /\ SeekFrame

\* The key c: the keydown listener calls the toggleSubtitles it closed over
KeyC ==
    /\ VideoMounted(player)
    /\ player.seeks < MaxSelections
    /\ player' = [ToggleSubtitles(player, player.keyCurrentSubtitle,
                                  player.keySubtitles)
                     EXCEPT !.seeks = @ + 1]
    /\ SeekFrame

\* The subtitles tab of the settings menu: Off or an entry of the prop
MenuSubtitle ==
    /\ VideoMounted(player)
    /\ player.seeks < MaxSelections
    /\ \E index \in -1 .. (player.subtitles - 1) :
          /\ player' = [SelectSubtitle(player, index) EXCEPT !.seeks = @ + 1]
          /\ lastEv' = [Observed("selectSubtitle", player, player.hlsRef)
                           EXCEPT !.level = index]
    /\ UNCHANGED hlsConfig
    /\ UNCHANGED <<now, ticks, shieldVars, adVars, detailVars, siteVars>>

SubsNext ==
    \/ SubtitlesChange
    \/ SubtitleLoads
    \/ ClickSubtitles
    \/ KeyC
    \/ MenuSubtitle
    \/ LoadedMetadata
    \/ VideoEvent

SubsSpec == SubsInit /\ [][SubsNext]_vars

\* C22: at most one subtitle track is in 'showing' mode at any time, and
\* after the tracks have been loaded or loaded again no track is showing
\* until the user selects one.
C22_OneTrackShowing ==
    /\ Cardinality(Showing(player)) <= 1
    /\ (player.tracksLoaded /\ ~player.userSelected) => Showing(player) = {}

\* C22, its second half alone
C22_NoneShowingAfterLoad ==
    (player.tracksLoaded /\ ~player.userSelected) => Showing(player) = {}

\* The entry of the current subtitles prop that track j was built from, -1
\* for a track built from an entry of an earlier value of the prop
EntryOf(p, j) == IF p.trackSubs[j].stale THEN -1 ELSE p.trackSubs[j].index

\* C39: the track shown after selectSubtitle(i) is the one built from
\* subtitles[i]: no track built from another entry, or from an entry of an
\* earlier subtitle list, is showing.
C39_SelectedTrackIsEntry ==
    (lastEv.op = "selectSubtitle" /\ lastEv.level >= 0)
        => \A j \in Showing(player) : EntryOf(player, j) = lastEv.level

\* C39 when every download of the current list succeeded and no download of
\* an earlier list was in progress
C39_WhenAllLoaded ==
    (/\ lastEv.op = "selectSubtitle" /\ lastEv.level >= 0
     /\ \A j \in DOMAIN player.trackSubs : EntryOf(player, j) = j - 1)
        => \A j \in Showing(player) : EntryOf(player, j) = lastEv.level

----------------------------------------------------------------------------
(* Properties of the timers of a session that has ended *)

\* The timer that ran last was set by a session whose engine the cleanup of
\* the init effect has destroyed
StaleTimerRan ==
    /\ lastEv.op = "timer"
    /\ lastEv.inst # 0
    /\ player.engines[lastEv.inst].destroyed

\* C34: a timer of a session that has been torn down changes neither the
\* engine of the later session, nor the error, nor the loading state.
C34_StaleTimerHarmless ==
    StaleTimerRan
        => /\ player.error = lastEv.errorBefore
           /\ player.isLoading = lastEv.loadingBefore
           /\ player.hlsRef # 0
                 => player.engines[player.hlsRef].manualLevel
                        = lastEv.manualBefore

----------------------------------------------------------------------------
(* Network retries over the life of a session *)

\* The retries scheduled for engine inst that have not run yet
PendingStartLoads(p, inst) ==
    {j \in DOMAIN p.timers :
        p.timers[j].kind = "startLoad" /\ p.timers[j].inst = inst}

\* The engine has loaded a fragment, playback goes on. The current revision
\* listens to Hls.Events.FRAG_LOADED: setIsLoading(false) when
\* video.readyState >= 2 (ready).
OnFragLoaded(cfg, p, inst, ready) ==
    [p EXCEPT !.isLoading = IF cfg.rev = "HLSPlayer" /\ ready
                            THEN FALSE ELSE @,
              !.engines[inst].resumedAt = p.engines[inst].networkRetries]

\* The engine loads a fragment: every retry that was scheduled has called
\* startLoad()
FragLoaded ==
    /\ player.effect = "done"
    /\ VideoMounted(player)
    /\ \E inst \in LiveEngines(player), ready \in BOOLEAN :
          /\ PendingStartLoads(player, inst) = {}
          /\ player.engines[inst].resumedAt
                # player.engines[inst].networkRetries
          /\ player' = OnFragLoaded(hlsConfig, player, inst, ready)
          /\ lastEv' = Observed("fragLoaded", player, inst)
    /\ UNCHANGED hlsConfig
    /\ UNCHANGED <<now, ticks, shieldVars, adVars, detailVars, siteVars>>

RetryNext ==
    \/ RunEffect
    \/ HlsError
    \/ TimerFires
    \/ FragLoaded

RetrySpec == PlayerInit /\ [][RetryNext]_vars

\* The handler that ran last handled a fatal network error of a session that
\* showed no error, whose last retry had succeeded: a fragment had been
\* loaded since
ErrorAfterResume ==
    /\ lastEv.op = "error" /\ lastEv.fatal /\ lastEv.type = NetworkError
    /\ lastEv.errorBefore = Null
    /\ hlsConfig.rev # "HLSPlayer_earlier"
    /\ lastEv.retriesBefore > 0
    /\ player.engines[lastEv.inst].resumedAt = lastEv.retriesBefore

\* C36: a fatal network error that follows a successful retry is retried
\* again: the handler schedules startLoad() and shows no error.
C36_RetriedAfterResume ==
    ErrorAfterResume
        => /\ player.error = Null
           /\ Len(player.timers) = lastEv.timersBefore + 1

----------------------------------------------------------------------------
(* PlayerPage: popup detection by focus loss *)

StackLimit == 6
MaxPopups == 4

\* The rest of handlePopupDetected after the shield has been told: the shield
\* overlay is enabled, the notification is shown and its 3 s timeout replaces
\* the one pending
Notified(pg, t) ==
    [pg EXCEPT !.shieldActive = TRUE,
               !.showShieldUI = TRUE,
               !.showPopupNotification = TRUE,
               !.timeouts = SelectSeq(@, LAMBDA x : x.kind # "notification")
                               \o <<[kind |-> "notification", due |-> t + 3000]>>]

\* The result of a call: the page and shield state it leaves, whether it threw
Returned(pg, st, thrown, entered, shieldCalls) ==
    [page |-> pg, state |-> st, thrown |-> thrown, entered |-> entered,
     shieldCalls |-> shieldCalls]

RECURSIVE HandlePopupDetected(_, _, _, _, _)
RECURSIVE ShieldOnPopupDetected(_, _, _, _, _)

\* ClickShield.onPopupDetected() called from the page with depth - 1 frames on
\* the call stack: the state is reset, then config.onPopupDetected, the arrow
\* function the page passed to createClickShield, is called; it calls
\* handlePopupDetected. A call that finds the stack full throws a RangeError,
\* which nothing on the way up catches.
ShieldOnPopupDetected(cfg, pg, st, t, depth) ==
    IF depth > StackLimit THEN Returned(pg, st, TRUE, 0, 0)
    ELSE LET reset == PopupDetected(cfg, st, t)
         IN IF depth + 1 > StackLimit THEN Returned(pg, reset, TRUE, 0, 1)
            ELSE LET inner == HandlePopupDetected(cfg, pg, reset, t, depth + 2)
                 IN [inner EXCEPT !.shieldCalls = @ + 1]

\* handlePopupDetected(): setPopupsBlocked(prev => prev + 1), then
\* clickShieldRef.current.onPopupDetected(), then the overlay and the
\* notification. The queued state updates are applied whether or not the run
\* throws.
HandlePopupDetected(cfg, pg, st, t, depth) ==
    IF depth > StackLimit THEN Returned(pg, st, TRUE, 0, 0)
    ELSE LET counted == [pg EXCEPT !.popupsBlocked = @ + 1]
             inner == IF pg.shieldReady
                      THEN ShieldOnPopupDetected(cfg, counted, st, t, depth + 1)
                      ELSE Returned(counted, st, FALSE, 0, 0)
         IN IF inner.thrown
            THEN [inner EXCEPT !.entered = @ + 1]
            ELSE [inner EXCEPT !.entered = @ + 1,
                               !.page = Notified(inner.page, t)]

\* The player page with its shield
PageInit ==
    /\ Init
    /\ config.enabled

PageFrame ==
    /\ ret' = NoRet
    /\ UNCHANGED <<config, ticks, win, backend, storage>>
    /\ UNCHANGED <<adVars, playerVars, detailVars>>

\* Time passes
PageAdvance ==
    /\ ticks < MaxTicks
    /\ \E d \in {10, 250, 3000} : now' = now + d
    /\ ticks' = ticks + 1
    /\ ret' = NoRet
    /\ page' = [page EXCEPT !.last = NoHandling]
    /\ UNCHANGED <<config, state, win, backend, storage>>
    /\ UNCHANGED <<adVars, playerVars, detailVars>>

\* The window loses the focus: handleBlur
WindowBlur ==
    /\ Len(page.timeouts) < MaxTimers + 1
    /\ now - page.lastBlurTime > 200
    /\ page' = [page EXCEPT !.lastBlurTime = now,
                            !.timeouts = Append(@, [kind |-> "popup",
                                                     due |-> now + 10]),
                            !.last = NoHandling]
    /\ UNCHANGED <<now, state>>
    /\ PageFrame

\* The tab is hidden: handleVisibilityChange with document.hidden
TabHidden ==
    /\ Len(page.timeouts) < MaxTimers + 1
    /\ page' = [page EXCEPT !.timeouts = Append(@, [kind |-> "popup",
                                                     due |-> now + 10]),
                            !.last = NoHandling]
    /\ UNCHANGED <<now, state>>
    /\ PageFrame

\* A 10 ms timeout of a listener is due: window.focus() and
\* handlePopupDetected()
PopupTimeout ==
    /\ page.popupsBlocked < MaxPopups
    /\ \E j \in DOMAIN page.timeouts :
          /\ page.timeouts[j].kind = "popup"
          /\ page.timeouts[j].due <= now
          /\ LET run == HandlePopupDetected(
                            config,
                            [page EXCEPT !.timeouts = RemoveAt(@, j)],
                            state, now, 1)
             IN /\ page' = [run.page EXCEPT
                               !.last = [op |-> "handlePopupDetected",
                                         entered |-> run.entered,
                                         shieldCalls |-> run.shieldCalls,
                                         thrown |-> run.thrown,
                                         popupsBefore |-> page.popupsBlocked]]
                /\ state' = run.state
    /\ UNCHANGED now
    /\ PageFrame

PageNext ==
    \/ PageAdvance
    \/ WindowBlur
    \/ TabHidden
    \/ PopupTimeout

PageSpec == PageInit /\ [][PageNext]_vars

\* C33: handling one detected popup terminates: handlePopupDetected is
\* entered once, calls ClickShield.onPopupDetected once, does not end in a
\* stack overflow, and popupsBlocked rises by exactly one.
C33_OnePopupHandledOnce ==
    page.last.op = "handlePopupDetected"
        => /\ ~page.last.thrown
           /\ page.last.entered = 1
           /\ page.last.shieldCalls = 1
           /\ page.popupsBlocked = page.last.popupsBefore + 1

----------------------------------------------------------------------------
(* start() and cleanup() of the ad blocker on one window *)

AdBlockers == 1..MaxInstances

\* The listeners added with a function the instance can name again
NamedListeners(cfg) ==
    IF cfg.rev = "adBlocker.ts"
    THEN {"blur", "visibilitychange", "pagehide", "pageshow", "click",
          "auxclick", "beforeunload", "submit", "contextmenu"}
    ELSE {"click", "firstClick", "auxclick", "contextmenu", "blur",
          "visibilitychange"}

\* The intervals start() sets, and whether start() keeps the handle
StartedTimers(cfg) ==
    IF cfg.rev = "adBlocker.ts"
    THEN {"focus", "monitor", "sanitizer"}
    ELSE {"focus", "sanitizer"}

\* The handle of timer t is in a variable of instance inst
HandleKept(inst, t) ==
    /\ t.cycle = inst.cycles
    /\ \/ t.kind = "focus" /\ inst.focusInterval
       \/ t.kind = "monitor" /\ inst.windowCheckInterval
       \/ t.kind = "sanitizer" /\ inst.sanitizeInterval

\* start() of instance i
Started(cfg, w, i) ==
    LET inst == w.instances[i]
        c == inst.cycles + 1
        ts == cfg.rev = "adBlocker.ts"
    IN
    IF ~cfg.enabled \/ inst.isActive THEN w
    ELSE [w EXCEPT
            !.open = i,
            !.setters = IF ts THEN i ELSE @,
            !.wrappers = IF ts THEN Append(@, i) ELSE @,
            !.timers = @ \cup {[kind |-> k, owner |-> i, cycle |-> c] :
                               k \in StartedTimers(cfg)},
            !.listeners = @ \cup {[event |-> e, owner |-> i, cycle |-> 0] :
                                  e \in NamedListeners(cfg)}
                            \cup {[event |-> "mousedown", owner |-> i,
                                   cycle |-> c]},
            !.instances[i] = [isActive |-> TRUE,
                              originalWindowOpen |-> w.open,
                              focusInterval |-> TRUE,
                              windowCheckInterval |-> ts,
                              sanitizeInterval |-> ~ts,
                              locationDescriptors |-> ts,
                              cycles |-> c],
            !.starts = @ + 1]

\* cleanup() of instance i
CleanedUp(cfg, w, i) ==
    LET inst == w.instances[i] IN
    [w EXCEPT
       !.listeners = {l \in @ : ~(l.owner = i /\ l.cycle = 0)},
       !.setters = IF inst.locationDescriptors THEN 0 ELSE @,
       !.timers = {t \in @ : ~(t.owner = i /\ HandleKept(inst, t))},
       !.open = IF inst.originalWindowOpen # -1
                THEN inst.originalWindowOpen ELSE @,
       !.instances[i] = [inst EXCEPT !.isActive = FALSE,
                                     !.originalWindowOpen = -1,
                                     !.focusInterval = FALSE,
                                     !.windowCheckInterval = FALSE,
                                     !.sanitizeInterval = FALSE,
                                     !.locationDescriptors = FALSE]]

WinInit ==
    /\ now = Epoch
    /\ config = CreateClickShield(FALSE)
    /\ state = NewClickShieldState(Epoch)
    /\ ret = NoRet
    /\ ticks = 0
    /\ adConfig \in {MergedConfig(rev, "high") :
                     rev \in {"adBlocker.ts", "part_008"}}
    /\ adState = NewAdBlockerState
    /\ opened = NoOpen
    /\ attempts = NoAttempts
    /\ nav = NoNav
    /\ monitor = NewMonitor(0)
    /\ hlsConfig = HlsPlayerConfig("HLSPlayer", "hls.js")
    /\ player = NewPlayer("")
    /\ lastEv = NoEvent
    /\ detail = NewDetail(FALSE)
    /\ lastCall = NoCall
    /\ page = NewPage
    /\ win = NewWindow
    /\ backend = NewBackend
    /\ storage = NewStorage

WinFrame ==
    /\ UNCHANGED <<now, ticks, page, backend, storage>>
    /\ UNCHANGED <<shieldVars, adVars, playerVars, detailVars>>

\* adBlocker.start() of one instance
Start ==
    /\ win.starts < MaxStarts
    /\ \E i \in AdBlockers :
          /\ ~win.instances[i].isActive
          /\ win' = [Started(adConfig, win, i) EXCEPT !.lastTask = NoTask]
    /\ WinFrame

\* adBlocker.cleanup() of one instance
Cleanup ==
    /\ \E i \in AdBlockers :
          /\ win.instances[i].cycles > 0
          /\ win' = [CleanedUp(adConfig, win, i) EXCEPT !.lastTask = NoTask]
    /\ WinFrame

\* An interval set by start() comes due and its callback runs
IntervalRuns ==
    /\ \E t \in win.timers :
          win' = [win EXCEPT !.lastTask =
                     [kind |-> t.kind, owner |-> t.owner, cycle |-> t.cycle,
                      active |-> win.instances[t.owner].isActive]]
    /\ WinFrame

WinNext ==
    \/ Start
    \/ Cleanup
    \/ IntervalRuns

WinSpec == WinInit /\ [][WinNext]_vars

\* Instance i has been started and cleaned up, and is not running
CleanedInstance(i) ==
    /\ win.instances[i].cycles > 0
    /\ ~win.instances[i].isActive

\* Nothing on the window belongs to instance i
NoTrace(i) ==
    /\ win.open # i
    /\ win.setters # i
    /\ \A k \in 1..Len(win.wrappers) : win.wrappers[k] # i
    /\ \A l \in win.listeners : l.owner # i
    /\ \A t \in win.timers : t.owner # i

\* C35: after cleanup() the ad blocker has no remaining effect: window.open
\* and the location overrides are restored, every listener it added is
\* removed, none of its periodic tasks runs again, and start()/cleanup()
\* cycles accumulate no timers, listeners or wrappers.
C35_CleanupLeavesNothing ==
    /\ \A i \in AdBlockers : CleanedInstance(i) => NoTrace(i)
    /\ win.lastTask.kind # "" => win.lastTask.active
    /\ (\A i \in AdBlockers : ~win.instances[i].isActive)
          => /\ win.open = 0
             /\ win.setters = 0
             /\ win.wrappers = <<>>
             /\ win.timers = {}
             /\ win.listeners = {}

\* C38: once every started instance is cleaned up, in any order, window.open
\* is the browser's function again; while an instance is active,
\* window.open is a blocking wrapper.
C38_OpenRestoredInAnyOrder ==
    /\ (\A i \in AdBlockers : ~win.instances[i].isActive) => win.open = 0
    /\ (\E i \in AdBlockers : win.instances[i].isActive) => win.open # 0

----------------------------------------------------------------------------
(* The m3u8 proxy: rewriting the URIs of a playlist *)

\* Lines of an upstream playlist
MaxLines == 3

\* The URIs of the upstream playlists, with what the proxy computes from
\* them: http is uri.startsWith('http'), href is new URL(uri, baseUrl).href
\* for baseUrl https://cdn.example/v/, proxied is
\* href.includes('/api/proxy/'), playlist is the .m3u8 / /playlist/ / type=
\* pattern on href, host is the host the reference leads to
UriFacts ==
    [u \in {"seg1.ts", "720/index.m3u8", "https://cdn.example/v/audio.m3u8",
            "key.bin", "init.mp4",
            "https://proxy.example/api/proxy/segment?url=k",
            "https://cdn.example/api/proxy/seg2.ts"} |->
        CASE u = "seg1.ts" ->
               [http |-> FALSE, href |-> "https://cdn.example/v/seg1.ts",
                proxied |-> FALSE, playlist |-> FALSE, host |-> ""]
          [] u = "720/index.m3u8" ->
               [http |-> FALSE,
                href |-> "https://cdn.example/v/720/index.m3u8",
                proxied |-> FALSE, playlist |-> TRUE, host |-> ""]
          [] u = "https://cdn.example/v/audio.m3u8" ->
               [http |-> TRUE, href |-> u,
                proxied |-> FALSE, playlist |-> TRUE,
                host |-> "cdn.example"]
          [] u = "key.bin" ->
               [http |-> FALSE, href |-> "https://cdn.example/v/key.bin",
                proxied |-> FALSE, playlist |-> FALSE, host |-> ""]
          [] u = "init.mp4" ->
               [http |-> FALSE, href |-> "https://cdn.example/v/init.mp4",
                proxied |-> FALSE, playlist |-> FALSE, host |-> ""]
          [] u = "https://proxy.example/api/proxy/segment?url=k" ->
               [http |-> TRUE, href |-> u,
                proxied |-> TRUE, playlist |-> FALSE,
                host |-> "proxy.example"]
          [] OTHER ->
               [http |-> TRUE, href |-> u,
                proxied |-> TRUE, playlist |-> FALSE,
                host |-> "cdn.example"]]

\* req.get('host') of the proxy
ProxyHost == "proxy.example"

\* A line of a playlist: tag is "" on a URL line (or a blank one), uri the
\* URL of the line or of the tag's URI="..." attribute, "" without one; via
\* is the proxy endpoint a rewritten URI goes through, "" as received
Line(tag, uri) == [tag |-> tag, uri |-> uri, via |-> ""]

PlaylistLines ==
    {Line("", ""), Line("#EXTINF", ""), Line("#EXT-X-STREAM-INF", ""),
     Line("#EXT-X-I-FRAME-STREAM-INF", "720/index.m3u8"),
     Line("#EXT-X-KEY", "key.bin"),
     Line("#EXT-X-KEY", "https://proxy.example/api/proxy/segment?url=k"),
     Line("#EXT-X-MEDIA", "https://cdn.example/v/audio.m3u8"),
     Line("#EXT-X-MEDIA", ""),
     Line("#EXT-X-MAP", "init.mp4"),
     Line("", "seg1.ts"), Line("", "720/index.m3u8"),
     Line("", "https://cdn.example/api/proxy/seg2.ts")}

Playlists ==
    UNION {[1..n -> PlaylistLines] : n \in 1..MaxLines}

\* `${proxyBase}<endpoint>?url=${encodeURIComponent(absolute)}&referer=...`
ProxyUrl(line, endpoint) ==
    [line EXCEPT !.uri = UriFacts[line.uri].href, !.via = endpoint]

\* line.replace(/URI="([^"]+)"/g, ...) of an EXT-X-KEY or EXT-X-MEDIA line
AttributeRewritten(line, endpoint) ==
    IF line.uri = "" THEN line
    ELSE IF UriFacts[line.uri].proxied THEN line
    ELSE ProxyUrl(line, endpoint)

\* One pass of the loop: the line pushed and nextLineIsPlaylist after it
RewrittenLine(line, nextLineIsPlaylist) ==
    IF line.tag \in {"#EXT-X-STREAM-INF", "#EXT-X-I-FRAME-STREAM-INF"}
    THEN [line |-> line, next |-> TRUE]
    ELSE IF line.tag = "#EXT-X-KEY"
    THEN [line |-> AttributeRewritten(line, "segment"),
          next |-> nextLineIsPlaylist]
    ELSE IF line.tag = "#EXT-X-MEDIA"
    THEN [line |-> AttributeRewritten(line, "m3u8"),
          next |-> nextLineIsPlaylist]
    ELSE IF line.tag # "" \/ line.uri = ""
    THEN [line |-> line, next |-> nextLineIsPlaylist]
    ELSE IF UriFacts[line.uri].proxied
    THEN [line |-> line, next |-> FALSE]
    ELSE IF nextLineIsPlaylist \/ UriFacts[line.uri].playlist
    THEN [line |-> ProxyUrl(line, "m3u8"), next |-> FALSE]
    ELSE [line |-> ProxyUrl(line, "segment"), next |-> FALSE]

RECURSIVE RewrittenLines(_, _, _)
\* for (let i = 0; i < lines.length; i++) { ... rewrittenLines.push(line) }
RewrittenLines(lines, i, nextLineIsPlaylist) ==
    IF i > Len(lines) THEN <<>>
    ELSE LET r == RewrittenLine(lines[i], nextLineIsPlaylist) IN
         <<r.line>> \o RewrittenLines(lines, i + 1, r.next)

ProxyInit ==
    /\ Init

\* GET /api/proxy/m3u8?url=...: the upstream playlist is fetched and sent
\* back rewritten
ProxyM3u8 ==
    /\ \E content \in Playlists :
          backend' = [backend EXCEPT
                        !.manifest = content,
                        !.output = RewrittenLines(content, 1, FALSE)]
    /\ UNCHANGED <<now, ticks, page, win, storage>>
    /\ UNCHANGED <<shieldVars, adVars, playerVars, detailVars>>

ProxyNext ==
    \/ ProxyM3u8

ProxySpec == ProxyInit /\ [][ProxyNext]_vars

\* The URI of an output line leads to the proxy
PointsToProxy(line) ==
    \/ line.via # ""
    \/ UriFacts[line.uri].host = ProxyHost

\* C31: every URI of the manifest the proxy returns, on a line of its own
\* or in a tag's URI attribute, points back to the proxy; none leads to the
\* upstream host or is left relative.
C31_EveryUriProxied ==
    \A k \in 1..Len(backend.output) :
        backend.output[k].uri # "" => PointsToProxy(backend.output[k])

----------------------------------------------------------------------------
(* Stream extraction on the shared browser page *)

ContentIds == {"movie-550", "tv-1399-S1E1"}

\* responseHandler(response) of request req for an m3u8 response
OnResponse(req, url) ==
    IF ~req.listening THEN req
    ELSE IF req.foundMedia = NoMedia \/ url.master
    THEN [req EXCEPT !.foundMedia = url]
    ELSE req

ExtractFrame ==
    /\ UNCHANGED <<now, ticks, page, win, storage>>
    /\ UNCHANGED <<shieldVars, adVars, playerVars, detailVars>>

\* The request arrives: getBrowser() gives the shared page and
\* page.on('response', responseHandler) registers the handler
ExtractStarts ==
    /\ \E r \in 1..MaxRequests, id \in ContentIds :
          /\ backend.requests[r].pc = "idle"
          /\ \A q \in 1..(r - 1) : backend.requests[q].pc # "idle"
          /\ backend' = [backend EXCEPT
                           !.requests[r] = [NewRequest EXCEPT
                                              !.contentId = id,
                                              !.pc = "registered",
                                              !.listening = TRUE]]
    /\ ExtractFrame

\* await page.goto('about:blank')
GotoBlank ==
    /\ \E r \in 1..MaxRequests :
          /\ backend.requests[r].pc = "registered"
          /\ backend' = [backend EXCEPT !.pageInstance = "",
                                        !.requests[r].pc = "blank"]
    /\ ExtractFrame

\* await page.goto(targetUrl)
GotoTarget ==
    /\ \E r \in 1..MaxRequests :
          /\ backend.requests[r].pc = "blank"
          /\ backend' = [backend EXCEPT
                           !.pageInstance = backend.requests[r].contentId,
                           !.requests[r].pc = "polling"]
    /\ ExtractFrame

\* The page shown loads an m3u8: every registered handler runs
PageResponse ==
    /\ backend.pageInstance # ""
    /\ \E master \in BOOLEAN :
          backend' = [backend EXCEPT !.requests =
              [r \in 1..MaxRequests |->
                  OnResponse(backend.requests[r],
                             [content |-> backend.pageInstance,
                              master |-> master])]]
    /\ ExtractFrame

\* The polling loop finds foundMedia set and answers
ExtractAnswers ==
    /\ \E r \in 1..MaxRequests :
          /\ backend.requests[r].pc = "polling"
          /\ backend.requests[r].foundMedia # NoMedia
          /\ backend' = [backend EXCEPT
                           !.requests[r].pc = "done",
                           !.requests[r].listening = FALSE,
                           !.requests[r].success = TRUE,
                           !.requests[r].m3u8Url =
                               backend.requests[r].foundMedia]
    /\ ExtractFrame

\* No server produced a manifest in time: the request fails
ExtractFails ==
    /\ \E r \in 1..MaxRequests :
          /\ backend.requests[r].pc = "polling"
          /\ backend.requests[r].foundMedia = NoMedia
          /\ backend' = [backend EXCEPT
                           !.requests[r].pc = "done",
                           !.requests[r].listening = FALSE]
    /\ ExtractFrame

ExtractNext ==
    \/ ExtractStarts
    \/ GotoBlank
    \/ GotoTarget
    \/ PageResponse
    \/ ExtractAnswers
    \/ ExtractFails

ExtractSpec == ProxyInit /\ [][ExtractNext]_vars

\* C37: the manifest URL an extraction answers with was captured from the
\* page loaded for that request's content, never from an earlier
\* extraction's page or a concurrent one's.
C37_AnswerIsOwnContent ==
    \A r \in 1..MaxRequests :
        backend.requests[r].success
            => backend.requests[r].m3u8Url.content
                   = backend.requests[r].contentId

----------------------------------------------------------------------------
(* useLocalStorage in two tabs *)

\* The lists a user can bring the watchlist to
Lists == {<<>>, <<"m1">>, <<"m1", "m2">>}

\* setStoredValue(value): the state is a new object, so the effect on
\* [key, storedValue] is due after the render
SetStoredValue(tab, value) ==
    [tab EXCEPT !.storedValue = value, !.effectDue = TRUE]

\* storageService.setItem(key, value) in tab t: localStorage.setItem of the
\* JSON text; the browser dispatches a storage event to the other tabs
\* when the text changes
SetItem(st, t, value) ==
    IF st.item = Stringify(value) THEN st
    ELSE [st EXCEPT
            !.item = Stringify(value),
            !.tabs = [o \in Tabs |->
                        IF o = t THEN st.tabs[o]
                        ELSE [st.tabs[o] EXCEPT
                                !.events = Append(@, Stringify(value))]]]

\* handleStorageChange(event) for the hook's key with a newValue
HandleStorageChange(tab, newValue) ==
    SetStoredValue(tab, Parse(newValue))

StorageFrame ==
    /\ UNCHANGED <<now, ticks, page, win, backend>>
    /\ UNCHANGED <<shieldVars, adVars, playerVars, detailVars>>

\* The user changes the list in one tab
ListChanged ==
    /\ storage.changes < MaxChanges
    /\ \E t \in Tabs, value \in Lists :
          /\ value # storage.tabs[t].storedValue
          /\ storage' = [storage EXCEPT
                           !.tabs[t] = SetStoredValue(@, value),
                           !.changes = @ + 1,
                           !.actor = t]
    /\ StorageFrame

\* The effect that writes storedValue to localStorage runs in one tab
EffectWrites ==
    /\ \E t \in Tabs :
          /\ storage.tabs[t].effectDue
          /\ storage' = [SetItem([storage EXCEPT !.tabs[t].effectDue = FALSE],
                                 t, storage.tabs[t].storedValue)
                           EXCEPT !.actor = t]
    /\ StorageFrame

\* One tab handles the oldest storage event dispatched to it
StorageEvent ==
    /\ \E t \in Tabs :
          /\ storage.tabs[t].events # <<>>
          /\ storage' = [storage EXCEPT
                           !.tabs[t] = HandleStorageChange(
                               [@ EXCEPT !.events = Tail(@)],
                               Head(storage.tabs[t].events)),
                           !.actor = t]
    /\ StorageFrame

StorageNext ==
    \/ ListChanged
    \/ EffectWrites
    \/ StorageEvent

\* Every tab runs its due effect and handles its events
StorageSpec ==
    /\ ProxyInit
    /\ [][StorageNext]_vars
    /\ \A t \in Tabs : WF_vars(EffectWrites /\ storage'.actor = t)
    /\ \A t \in Tabs : WF_vars(StorageEvent /\ storage'.actor = t)

\* Nothing is left to do and the tabs agree with localStorage
TabsSettled ==
    \A t \in Tabs :
        /\ storage.tabs[t].events = <<>>
        /\ ~storage.tabs[t].effectDue
        /\ storage.tabs[t].storedValue = Parse(storage.item)

\* C32: with two tabs changing the same list, once the changes stop and the
\* storage events are delivered, both tabs and localStorage hold the same
\* value and no further write occurs: the tabs settle for good.
C32_TabsSettle == <>[]TabsSettled

============================================================================
